---- MODULE Spec2Model ----
(***************************************************************************)
(* Model of the e-commerce API core: the sliding-window rate limiter       *)
(* (app/redis_client.py, app/middleware.py), the middleware stack that     *)
(* turns exceptions into responses (app/middleware.py, main.py) and the    *)
(* JWT token service (app/auth.py).                                        *)
(*                                                                         *)
(* Every await of the code is one step of a request process, so that       *)
(* concurrent requests interleave exactly at the store commands.           *)
(***************************************************************************)
EXTENDS Integers, Sequences, FiniteSets, TLC

VARIABLES
    now,        \* the clock, in whole seconds: int(time.time())
    ticks,      \* how many times the clock has advanced (bounds the model)
    phase,      \* application lifecycle: "created", "running", "stopped"
    storeUp,    \* whether the Redis server answers commands
    redisSet,   \* RedisClient.redis is not None
    connected,  \* RedisClient._connected
    zset,       \* per client ip: the sorted set rate_limit:<ip>, member -> score
    keyExp,     \* per client ip: the instant the key expires, or NoExpiry
    pc,         \* per request process: the await it is suspended at
    req,        \* per request process: the locals of dispatch / check_rate_limit
    calls,      \* number of requests dispatched so far (bounds the model)
    last,       \* history: the request completed last, with its response
    admitted,   \* history: per client, the checks the store admitted
    prevT,      \* history: per client, the time of its latest check (or NoTime)
    rejected,   \* history: per client, whether a check of it was ever rejected
    used,       \* history: per client, the policies it was checked under
    tracking,   \* whether this run records the histories admitted and used
    issued,     \* the tokens issued so far, each with the user id it was issued for
    vlast,      \* history: the token verification made last in the current second
    cache,      \* per cache key: the entry the store holds (raw text and expiry)
    db,         \* the database: user records and the product catalogue
    cpc,        \* the cache-using request in progress: the await it is suspended at
    creq,       \* the locals of that request
    cops,       \* number of cache-using operations started (bounds the model)
    clast,      \* history: the cache-using operation completed last
    users,      \* the table users: row i is the user with id i
    apc,        \* per account request: the await it is suspended at
    areq,       \* per account request: the locals of the route and of crud.py
    aops,       \* number of account requests started (bounds the model)
    alast       \* history: the account request completed last

rlVars == <<now, ticks, phase, storeUp, redisSet, connected, zset, keyExp,
            pc, req, calls, last, admitted, prevT, rejected, used, tracking>>
histVars == <<last, admitted, prevT, rejected, used, tracking>>
tokVars == <<issued, vlast>>
cacheVars == <<cache, db, cpc, creq, cops, clast>>
acctVars == <<users, apc, areq, aops, alast>>

----------------------------------------------------------------------------
(* Bounds of the model *)

\* how many times the clock advances
MaxTicks == 2
\* how many checks are made: one after another, and concurrently
MaxCalls == 4
MaxCallsConc == 3
\* how many checks are made concurrently while the store fails and recovers
MaxCallsShape == 2
\* how many times the clock advances in those runs
MaxTicksShape == 1
\* checks and cached reads made in the runs about the connection flag
MaxCallsLatch == 2
MaxLatchOps == 2
\* how many requests go through the middleware: with store failures, and in
\* the login scenario
MaxCallsMw == 4
MaxCallsLogin == 6
\* how many times the clock advances in the login scenario
MaxTicksLogin == 4
\* the largest limit of a policy check_rate_limit is called with directly
MaxLimit == 2

Procs == {"r1", "r2"}
\* the one process that serves the requests made one after another
SeqProcs == {"r1"}
Clients == {"10.0.0.1"}
\* the policies check_rate_limit is called with directly
Limits == 0..MaxLimit
Windows == {2}
\* the limits of the concurrent checks made while the store fails and recovers
ShapeLimits == {0, 1, 2}
\* the amounts the clock advances by when check_rate_limit is called directly
CheckTickSteps == {1, 2}
\* the routes requests are sent to; "/products/" has no entry in rate_limits
Endpoints == {"/auth/login", "/auth/register", "/products/"}
\* the amounts the clock advances by between requests: one second, and the
\* longest window of a policy
MwTickSteps == {1, 3600}
\* the same in the login scenario: rapid requests, one second apart
LoginTickSteps == {1}
\* statuses the downstream handler may answer with
DownstreamStatuses == {200, 401}

NoExpiry == -1
NoHeader == -1
\* history: no earlier check
NoTime == 0 - 1

----------------------------------------------------------------------------
(* Pure helpers *)

Digits == <<"0", "1", "2", "3", "4", "5", "6", "7", "8", "9">>

RECURSIVE NatToStr(_)
NatToStr(n) ==
    IF n < 10 THEN <<Digits[n + 1]>>
    ELSE NatToStr(n \div 10) \o <<Digits[(n % 10) + 1]>>

\* Python's str(int)
IntToStr(n) == IF n < 0 THEN <<"-">> \o NatToStr(-n) ELSE NatToStr(n)

EmptyZSet == [m \in {} |-> 0]

\* a purge that keeps the member whose score is exactly hi
ZRemRangeByScoreExclusive(z, lo, hi) ==
    LET keep == {m \in DOMAIN z : ~(lo <= z[m] /\ z[m] < hi)}
    IN  [m \in keep |-> z[m]]

\* ZREMRANGEBYSCORE key lo hi: drop the members with lo <= score <= hi
ZRemRangeByScore(z, lo, hi) ==
    LET keep == {m \in DOMAIN z : ~(lo <= z[m] /\ z[m] <= hi)}
    IN  [m \in keep |-> z[m]]

\* ZCARD key
ZCard(z) == Cardinality(DOMAIN z)

\* ZADD key {member: score}: a member already present only gets its score updated
ZAdd(z, member, score) ==
    [m \in (DOMAIN z) \cup {member} |-> IF m = member THEN score ELSE z[m]]

\* TTL key: -2 when the key does not exist, -1 when it has no expiry
Ttl(z, exp, t) ==
    IF DOMAIN z = {} THEN -2
    ELSE IF exp = NoExpiry THEN -1
    ELSE exp - t

----------------------------------------------------------------------------
(* RateLimitMiddleware.rate_limits and the policy of an endpoint *)

rate_limits ==
    [ep \in {"/auth/login", "/auth/register", "/auth/refresh", "default"} |->
        CASE ep = "/auth/login"    -> [limit |-> 5,   window |-> 300]
          [] ep = "/auth/register" -> [limit |-> 3,   window |-> 3600]
          [] ep = "/auth/refresh"  -> [limit |-> 10,  window |-> 300]
          [] OTHER                 -> [limit |-> 100, window |-> 60]]

LimitsFor(endpoint) ==
    IF endpoint \in DOMAIN rate_limits THEN rate_limits[endpoint]
    ELSE rate_limits["default"]

----------------------------------------------------------------------------
(* The middleware stack and the conversion of exceptions into responses *)

\* main.py: the order of the add_middleware calls
AddOrder == <<"CORS", "ErrorHandler", "SecurityHeaders", "RateLimit", "Logging">>

\* Starlette inserts each added middleware at the front of the stack: the
\* middleware added last is the outermost one.  Position 1 is outermost.
MiddlewareStack == [i \in 1..Len(AddOrder) |-> AddOrder[Len(AddOrder) + 1 - i]]

\* the application (router and route handlers) sits inside every middleware
PositionOf(mw) ==
    IF mw = "App" THEN Len(MiddlewareStack) + 1
    ELSE CHOOSE i \in 1..Len(MiddlewareStack) : MiddlewareStack[i] = mw

\* the middlewares an exception raised inside mw (or passing through it)
\* travels through on its way out
Enclosing(mw) == {MiddlewareStack[i] : i \in 1..(PositionOf(mw) - 1)}

\* RateLimitException(limit, window_seconds, retry_after)
RateLimitError(limit, window, retryAfter) ==
    [kind |-> "EcommerceError", cls |-> "RateLimitError", status |-> 429,
     retry_after |-> retryAfter]

\* ErrorHandlerMiddleware.dispatch: the response for an exception it catches
ErrorHandlerResponse(exc) ==
    CASE exc.kind = "EcommerceError" ->
            [status |-> exc.status,
             retry_after |-> IF exc.cls = "RateLimitError" THEN exc.retry_after
                             ELSE NoHeader,
             headers |-> IF exc.cls = "RateLimitError" THEN {"Retry-After"}
                         ELSE {}]
      [] exc.kind = "ValueError" ->
            [status |-> 400, retry_after |-> NoHeader, headers |-> {}]
      [] OTHER -> [status |-> 500, retry_after |-> NoHeader, headers |-> {}]

\* The response a client gets for an exception raised by middleware `origin`:
\* LoggingMiddleware logs and re-raises, SecurityHeadersMiddleware and CORS do
\* not catch, ErrorHandlerMiddleware catches everything; an exception that
\* leaves the stack is answered 500 by the server's error middleware.
ResponseForRaise(origin, exc) ==
    IF "ErrorHandler" \in Enclosing(origin)
    THEN ErrorHandlerResponse(exc)
    ELSE [status |-> 500, retry_after |-> NoHeader, headers |-> {}]

----------------------------------------------------------------------------
(* check_rate_limit results *)

\* a limiter that fails closed instead
FailClosedResult(limit) ==
    [allowed |-> FALSE, remaining |-> 0, reset_time |-> 0, path |-> "open"]

\* the result returned when the store is unavailable or a command fails
FailOpenResult(limit) ==
    [allowed |-> TRUE, remaining |-> limit, reset_time |-> 0, path |-> "open"]

\* a rejection that always takes the TTL the store reported
RejectedResultTtlOnly(currentTime, ttl, window) ==
    [allowed |-> FALSE, remaining |-> 0, reset_time |-> currentTime + ttl,
     path |-> "store"]

RejectedResult(currentTime, ttl, window) ==
    [allowed |-> FALSE, remaining |-> 0,
     reset_time |-> currentTime + (IF ttl > 0 THEN ttl ELSE window),
     path |-> "store"]

AllowedResult(currentTime, limit, window, currentRequests) ==
    [allowed |-> TRUE, remaining |-> limit - currentRequests - 1,
     reset_time |-> currentTime + window, path |-> "store"]

NoResult == [allowed |-> TRUE, remaining |-> 0, reset_time |-> 0, path |-> "none"]

NoGhost ==
    [prior |-> 0, others |-> FALSE, prevT |-> NoTime, prevRejected |-> FALSE,
     store |-> FALSE]

IdleReq ==
    [via |-> "", client |-> "", endpoint |-> "", limit |-> 0, window |-> 0,
     current_time |-> 0, current_requests |-> 0,
     result |-> NoResult, ghost |-> NoGhost]

NoLast ==
    [via |-> "", client |-> "", endpoint |-> "", limit |-> 0, window |-> 0,
     t |-> 0, done |-> 0,
     allowed |-> TRUE, remaining |-> 0, reset_time |-> 0, path |-> "none",
     forwarded |-> FALSE, status |-> 0, retry_after |-> NoHeader,
     headers |-> {}, added |-> 0, still |-> 0,
     ghost |-> NoGhost]

----------------------------------------------------------------------------
(* The token service: app/auth.py *)

\* settings.ACCESS_TOKEN_EXPIRE_MINUTES and settings.REFRESH_TOKEN_EXPIRE_DAYS
ACCESS_TOKEN_EXPIRE_MINUTES == 30
REFRESH_TOKEN_EXPIRE_DAYS == 7

AccessTtl == ACCESS_TOKEN_EXPIRE_MINUTES * 60
RefreshTtl == REFRESH_TOKEN_EXPIRE_DAYS * 24 * 60 * 60

\* how many tokens are issued
MaxTokens == 1
\* the user ids tokens are issued for, and those that have a user record
UserIds == {-3, 0, 7, 42}
ExistingUsers == {7, 42}
TokenTypes == {"access", "refresh"}
\* the amounts the clock advances by: one second and the longer lifetime
TokTickSteps == {1, RefreshTtl}

DigitValue(ch) == CHOOSE i \in 0..9 : Digits[i + 1] = ch

IsDigit(ch) == \E i \in 1..10 : Digits[i] = ch

RECURSIVE DigitsToNat(_)
DigitsToNat(s) ==
    IF Len(s) = 0 THEN 0
    ELSE DigitsToNat(SubSeq(s, 1, Len(s) - 1)) * 10 + DigitValue(s[Len(s)])

\* whether Python's int(s) accepts s: an optional sign and at least one digit
IsIntLiteral(s) ==
    LET body == IF Len(s) > 0 /\ s[1] \in {"-", "+"} THEN Tail(s) ELSE s
    IN  Len(body) > 0 /\ \A i \in 1..Len(body) : IsDigit(body[i])

\* an int() that forgets the sign
PyIntUnsigned(s) ==
    IF s[1] \in {"-", "+"} THEN DigitsToNat(Tail(s)) ELSE DigitsToNat(s)

\* Python's int(s) for an accepted s
PyInt(s) ==
    IF s[1] = "-" THEN 0 - DigitsToNat(Tail(s))
    ELSE IF s[1] = "+" THEN DigitsToNat(Tail(s))
    ELSE DigitsToNat(s)

\* jwt.encode of {"sub": str(user_id), "exp": expire, "type": ...}: the claims,
\* and whether the signature is the one SECRET_KEY gives for them
create_access_token(user_id, t) ==
    [hasSub |-> TRUE, sub |-> IntToStr(user_id), exp |-> t + AccessTtl,
     type |-> "access", sig |-> "ok"]

create_refresh_token(user_id, t) ==
    [hasSub |-> TRUE, sub |-> IntToStr(user_id), exp |-> t + RefreshTtl,
     type |-> "refresh", sig |-> "ok"]

NoToken == [hasSub |-> FALSE, sub |-> <<>>, exp |-> 0, type |-> "", sig |-> ""]

HTTPException(status, detail) ==
    [kind |-> "HTTPException", status |-> status, detail |-> detail, user_id |-> 0]

ValueError == [kind |-> "ValueError", status |-> 0, detail |-> "", user_id |-> 0]

Returned(user_id) == [kind |-> "ok", status |-> 0, detail |-> "", user_id |-> user_id]

\* (the details are written here without their accents)
\* jwt.decode: JWTError for a wrong signature, ExpiredSignatureError (a
\* JWTError) for a token whose exp lies before the current second
JwtDecodeFails(token, t) == token.sig # "ok" \/ token.exp < t

\* a verify_token that checks the type before the signature and expiration
verify_token_type_first(token, expected_type, t) ==
    IF token.type # expected_type
    THEN HTTPException(401, "Tipo de token incorrecto")
    ELSE IF JwtDecodeFails(token, t)
    THEN HTTPException(401, "Token invalido o expirado")
    ELSE IF ~token.hasSub THEN HTTPException(401, "Token invalido")
    ELSE IF ~IsIntLiteral(token.sub) THEN ValueError
    ELSE Returned(PyInt(token.sub))

\* a verify_token that does not look at the type
verify_token_any_type(token, expected_type, t) ==
    IF JwtDecodeFails(token, t)
    THEN HTTPException(401, "Token invalido o expirado")
    ELSE IF ~token.hasSub THEN HTTPException(401, "Token invalido")
    ELSE IF ~IsIntLiteral(token.sub) THEN ValueError
    ELSE Returned(PyInt(token.sub))

\* verify_token(token, expected_type) at time t: what it returns or raises
verify_token(token, expected_type, t) ==
    IF JwtDecodeFails(token, t)
    THEN HTTPException(401, "Token invalido o expirado")
    ELSE IF token.type # expected_type
    THEN HTTPException(401, "Tipo de token incorrecto")
    ELSE IF ~token.hasSub THEN HTTPException(401, "Token invalido")
    ELSE IF ~IsIntLiteral(token.sub) THEN ValueError
    ELSE Returned(PyInt(token.sub))

\* The response to an exception raised by a route or its dependencies: FastAPI
\* answers an HTTPException itself; anything else travels out through the
\* middleware stack.
AppResponse(exc) ==
    IF exc.kind = "HTTPException"
    THEN [status |-> exc.status, retry_after |-> NoHeader, headers |-> {}]
    ELSE ResponseForRaise("App", exc)

\* get_current_user on a protected route: its outcome and the status sent
\* (200 stands for the route going on with the authenticated user)
get_current_user(token, t) ==
    LET v == verify_token(token, "access", t)
    IN  IF v.kind # "ok" THEN [outcome |-> v, status |-> AppResponse(v).status]
        ELSE IF v.user_id \notin ExistingUsers
        THEN [outcome |-> v, status |-> AppResponse(HTTPException(404, "Usuario no encontrado")).status]
        ELSE [outcome |-> v, status |-> 200]

\* a refresh route that does not look the user up
refresh_token_any_user(token, t) ==
    LET v == verify_token(token, "refresh", t)
    IN  IF v.kind = "ok"
        THEN [outcome |-> v, status |-> 200, issues |-> TRUE,
              access_token |-> create_access_token(v.user_id, t),
              refresh_token |-> token]
        ELSE [outcome |-> v,
              status |-> AppResponse(HTTPException(401, "Token de refresh invalido")).status,
              issues |-> FALSE, access_token |-> NoToken, refresh_token |-> NoToken]

\* POST /auth/refresh: every exception inside the try block becomes a 401;
\* the response carries the new access token and the presented refresh token
refresh_token(token, t) ==
    LET v == verify_token(token, "refresh", t)
    IN  IF v.kind = "ok" /\ v.user_id \in ExistingUsers
        THEN [outcome |-> v, status |-> 200, issues |-> TRUE,
              access_token |-> create_access_token(v.user_id, t),
              refresh_token |-> token]
        ELSE [outcome |-> v,
              status |-> AppResponse(HTTPException(401, "Token de refresh invalido")).status,
              issues |-> FALSE, access_token |-> NoToken, refresh_token |-> NoToken]

\* the tokens a client can present, built from an issued one: the token
\* itself, a copy whose signature does not match, and tokens carrying the
\* application's signature over claims the application never issues
Presented(token) ==
    {[source |-> "issued",  token |-> token],
     [source |-> "tampered", token |-> [token EXCEPT !.sig = "bad"]],
     [source |-> "nosub",   token |-> [token EXCEPT !.hasSub = FALSE, !.sub = <<>>]],
     [source |-> "nonint",  token |-> [token EXCEPT !.sub = <<"a", "b", "c">>]]}

NoVerification ==
    [op |-> "", source |-> "", uid |-> 0, token |-> NoToken, expected |-> "",
     time |-> 0, outcome |-> Returned(0), status |-> 0, issues |-> FALSE,
     access_token |-> NoToken, refresh_token |-> NoToken]

TokInit ==
    /\ issued = {}
    /\ vlast = NoVerification

rlRest == <<phase, storeUp, redisSet, connected, zset, keyExp, pc, req, calls,
            histVars, cacheVars, acctVars>>

\* login issues an access token for a user
CreateAccessToken ==
    /\ Cardinality(issued) < MaxTokens
    /\ \E uid \in UserIds :
         issued' = issued \cup {[uid |-> uid, token |-> create_access_token(uid, now)]}
    /\ UNCHANGED <<now, ticks, rlRest, vlast>>

\* login issues a refresh token for a user
CreateRefreshToken ==
    /\ Cardinality(issued) < MaxTokens
    /\ \E uid \in UserIds :
         issued' = issued \cup {[uid |-> uid, token |-> create_refresh_token(uid, now)]}
    /\ UNCHANGED <<now, ticks, rlRest, vlast>>

TickTok ==
    /\ ticks < MaxTicks
    /\ \E d \in TokTickSteps : now' = now + d
    /\ ticks' = ticks + 1
    /\ vlast' = NoVerification
    /\ UNCHANGED <<rlRest, issued>>

\* verify_token is called with a presented token and an expected type
VerifyToken ==
    /\ \E i \in issued : \E pr \in Presented(i.token) : \E e \in TokenTypes :
         vlast' = [op |-> "verify", source |-> pr.source, uid |-> i.uid,
                   token |-> pr.token, expected |-> e, time |-> now,
                   outcome |-> verify_token(pr.token, e, now),
                   status |-> 0, issues |-> FALSE, access_token |-> NoToken,
                   refresh_token |-> NoToken]
    /\ UNCHANGED <<now, ticks, rlRest, issued>>

\* a request to a protected route presents a token as its bearer credential
ProtectedRoute ==
    /\ \E i \in issued : \E pr \in Presented(i.token) :
         LET g == get_current_user(pr.token, now)
         IN  vlast' = [op |-> "protected", source |-> pr.source, uid |-> i.uid,
                       token |-> pr.token, expected |-> "access", time |-> now,
                       outcome |-> g.outcome, status |-> g.status, issues |-> FALSE,
                       access_token |-> NoToken, refresh_token |-> NoToken]
    /\ UNCHANGED <<now, ticks, rlRest, issued>>

\* POST /auth/refresh presents a token; on success the response carries a
\* new access token
RefreshRoute ==
    /\ \E i \in issued : \E pr \in Presented(i.token) :
         LET g == refresh_token(pr.token, now)
         IN  vlast' = [op |-> "refresh", source |-> pr.source, uid |-> i.uid,
                       token |-> pr.token, expected |-> "refresh", time |-> now,
                       outcome |-> g.outcome, status |-> g.status,
                       issues |-> g.issues, access_token |-> g.access_token,
                       refresh_token |-> g.refresh_token]
    /\ UNCHANGED <<now, ticks, rlRest, issued>>

----------------------------------------------------------------------------
(* Initial state: the module-level RedisClient() before lifespan startup *)

RLInit ==
    /\ now = 0
    /\ ticks = 0
    /\ phase = "created"
    /\ storeUp \in BOOLEAN
    /\ redisSet = FALSE
    /\ connected = FALSE
    /\ zset = [c \in Clients |-> EmptyZSet]
    /\ keyExp = [c \in Clients |-> NoExpiry]
    /\ pc = [p \in Procs |-> "idle"]
    /\ req = [p \in Procs |-> IdleReq]
    /\ calls = 0
    /\ last = NoLast
    /\ admitted = [c \in Clients |-> {}]
    /\ prevT = [c \in Clients |-> NoTime]
    /\ rejected = [c \in Clients |-> FALSE]
    /\ used = [c \in Clients |-> {}]
    /\ tracking = FALSE

----------------------------------------------------------------------------
(* Application lifecycle and environment *)

\* RedisClient.connect, called once by lifespan at startup
Connect ==
    /\ UNCHANGED <<tokVars, cacheVars, acctVars>>
    /\ phase = "created"
    /\ phase' = "running"
    /\ redisSet' = TRUE
    /\ connected' = storeUp
    /\ UNCHANGED <<now, ticks, storeUp, zset, keyExp, pc, req, calls, histVars>>

\* RedisClient.disconnect, called once by lifespan at shutdown
Disconnect ==
    /\ UNCHANGED <<tokVars, cacheVars, acctVars>>
    /\ phase = "running"
    /\ \A p \in Procs : pc[p] = "idle"
    /\ phase' = "stopped"
    /\ connected' = IF redisSet THEN FALSE ELSE connected
    /\ UNCHANGED <<now, ticks, storeUp, redisSet, zset, keyExp, pc, req, calls,
                   histVars>>

\* the clock advances by d; Redis deletes the keys whose expiry has been reached
Advance(d, maxTicks) ==
    /\ UNCHANGED <<tokVars, cacheVars, acctVars>>
    /\ ticks < maxTicks
    /\ now' = now + d
    /\ zset' = [c \in Clients |->
                  IF keyExp[c] # NoExpiry /\ keyExp[c] <= now + d
                  THEN EmptyZSet ELSE zset[c]]
    /\ keyExp' = [c \in Clients |->
                  IF keyExp[c] # NoExpiry /\ keyExp[c] <= now + d
                  THEN NoExpiry ELSE keyExp[c]]
    /\ ticks' = ticks + 1
    /\ UNCHANGED <<phase, storeUp, redisSet, connected, pc, req, calls, histVars>>

Tick == \E d \in CheckTickSteps : Advance(d, MaxTicks)

\* between two requests made one after another
TickMw ==
    /\ \A q \in Procs : pc[q] = "idle"
    /\ \E d \in MwTickSteps : Advance(d, MaxTicks)

TickLogin == \E d \in LoginTickSteps : Advance(d, MaxTicksLogin)

TickShape == \E d \in CheckTickSteps : Advance(d, MaxTicksShape)

\* the Redis server stops answering (down, unreachable, or slower than the
\* 5 s socket timeout)
StoreFail ==
    /\ UNCHANGED <<tokVars, cacheVars, acctVars>>
    /\ storeUp
    /\ storeUp' = FALSE
    /\ UNCHANGED <<now, ticks, phase, redisSet, connected, zset, keyExp, pc, req,
                   calls, histVars>>

StoreRecover ==
    /\ UNCHANGED <<tokVars, cacheVars, acctVars>>
    /\ ~storeUp
    /\ storeUp' = TRUE
    /\ UNCHANGED <<now, ticks, phase, redisSet, connected, zset, keyExp, pc, req,
                   calls, histVars>>

----------------------------------------------------------------------------
(* RateLimitMiddleware.dispatch and check_rate_limit, one action per await *)

\* how many admitted checks <<limit, window, t, k>> of policy (l, w) lie after lo
CountAfter(S, l, w, lo) ==
    Cardinality({x \in S : x[1] = l /\ x[2] = w /\ x[3] > lo})

\* how many timestamps of the sorted set z are still inside a window of
\* `window` seconds at time t
InWindowAt(z, window, t) ==
    Cardinality({m \in DOMAIN z : z[m] > t - window})

\* the record of a finished check; `added` is by how much an admitting check
\* made the client's collection grow, `still` is how many of the client's
\* timestamps are inside the policy's window at the reset_time of a rejection
LastEntry(r, forwarded, resp) ==
    [via |-> r.via, client |-> r.client, endpoint |-> r.endpoint,
     limit |-> r.limit, window |-> r.window,
     t |-> r.current_time, done |-> now,
     allowed |-> r.result.allowed, remaining |-> r.result.remaining,
     reset_time |-> r.result.reset_time, path |-> r.result.path,
     forwarded |-> forwarded,
     status |-> resp.status, retry_after |-> resp.retry_after,
     headers |-> resp.headers,
     added |-> IF r.result.allowed /\ r.result.path = "store"
               THEN ZCard(zset[r.client]) - r.current_requests ELSE 0,
     still |-> IF r.result.allowed THEN 0
               ELSE InWindowAt(zset[r.client], r.window, r.result.reset_time),
     ghost |-> r.ghost]

NoResponse == [status |-> 0, retry_after |-> NoHeader, headers |-> {}]

\* a dispatch that forwards whatever the check returned
RejectsNever(result) == FALSE

\* dispatch line 121: whether the request is refused
Rejects(result) == ~result.allowed

\* dispatch lines 143-145: the headers added to the downstream response
RateLimitHeaders == {"X-RateLimit-Limit", "X-RateLimit-Remaining", "X-RateLimit-Reset"}

\* The return of check_rate_limit.  A direct caller just gets the result.  In
\* dispatch a rejected request raises RateLimitError, whose response the
\* middleware stack decides, and an admitted one is handed to call_next.
AfterCheck(p, r0, result) ==
    LET c == r0.client
        g == [prior |-> CountAfter(admitted[c], r0.limit, r0.window,
                                   r0.current_time - r0.window),
              others |-> used[c] \ {<<r0.limit, r0.window>>} # {},
              prevT |-> prevT[c],
              prevRejected |-> rejected[c],
              store |-> result.path = "store"]
        r == [r0 EXCEPT !.result = result, !.ghost = g]
    IN  /\ admitted' =
              IF tracking /\ result.allowed /\ result.path = "store"
              THEN [admitted EXCEPT ![c] = @ \cup
                      {<<r.limit, r.window, r.current_time,
                         1 + CountAfter(@, r.limit, r.window, r.current_time - 1)
                           - CountAfter(@, r.limit, r.window, r.current_time)>>}]
              ELSE admitted
        /\ prevT' = [prevT EXCEPT ![c] = IF r.current_time > @ THEN r.current_time ELSE @]
        /\ rejected' = [rejected EXCEPT ![c] = @ \/ ~result.allowed]
        /\ used' = IF tracking THEN [used EXCEPT ![c] = @ \cup {<<r.limit, r.window>>}]
                   ELSE used
        /\ tracking' = tracking
        /\ IF r.via = "direct"
           THEN /\ last' = LastEntry(r, FALSE, NoResponse)
                /\ pc' = [pc EXCEPT ![p] = "idle"]
                /\ req' = [req EXCEPT ![p] = IdleReq]
           ELSE IF Rejects(result)
           THEN LET exc == RateLimitError(r.limit, r.window, result.reset_time - now)
                    resp == ResponseForRaise("RateLimit", exc)
                IN  /\ last' = LastEntry(r, FALSE, resp)
                    /\ pc' = [pc EXCEPT ![p] = "idle"]
                    /\ req' = [req EXCEPT ![p] = IdleReq]
           ELSE /\ pc' = [pc EXCEPT ![p] = "call_next"]
                /\ req' = [req EXCEPT ![p] = r]
                /\ last' = last

\* check_rate_limit up to its first await: is_connected() either returns False
\* at once or sends a PING
EnterCheck(p, r) ==
    /\ UNCHANGED <<tokVars, cacheVars, acctVars>>
    /\ calls' = calls + 1
    /\ IF ~connected \/ ~redisSet
       THEN AfterCheck(p, r, FailOpenResult(r.limit))
       ELSE /\ pc' = [pc EXCEPT ![p] = "ping"]
            /\ req' = [req EXCEPT ![p] = r]
            /\ UNCHANGED histVars
    /\ UNCHANGED <<now, ticks, phase, storeUp, redisSet, connected, zset, keyExp>>

\* a direct call check_rate_limit(user_ip, limit, window_seconds)
CallBody(p, c, l, w) ==
    EnterCheck(p, [IdleReq EXCEPT !.via = "direct", !.client = c,
                                  !.limit = l, !.window = w, !.current_time = now])

\* RateLimitMiddleware.dispatch up to the first await: the policy is chosen by
\* route and check_rate_limit is called with it
DispatchBody(p, c, ep) ==
    LET limits == LimitsFor(ep)
    IN  EnterCheck(p, [IdleReq EXCEPT !.via = "middleware", !.client = c,
                                      !.endpoint = ep,
                                      !.limit = limits.limit,
                                      !.window = limits.window,
                                      !.current_time = now])

\* concurrent direct calls
CallCheck(p) ==
    /\ phase = "running"
    /\ pc[p] = "idle"
    /\ calls < MaxCallsConc
    /\ \E c \in Clients, l \in Limits, w \in Windows : CallBody(p, c, l, w)

\* concurrent direct calls in the runs where the store fails and recovers
CallCheckShape(p) ==
    /\ phase = "running"
    /\ pc[p] = "idle"
    /\ calls < MaxCallsShape
    /\ \E c \in Clients, l \in ShapeLimits, w \in Windows : CallBody(p, c, l, w)

\* direct calls made one after another, between cached reads
CallCheckLatch(p) ==
    /\ phase = "running"
    /\ \A q \in Procs : pc[q] = "idle"
    /\ cpc = "idle"
    /\ calls < MaxCallsLatch
    /\ \E c \in Clients, l \in ShapeLimits, w \in Windows : CallBody(p, c, l, w)

\* direct calls made one after another: none is in flight when one is made
CallCheckSeq(p) ==
    /\ phase = "running"
    /\ \A q \in Procs : pc[q] = "idle"
    /\ calls < MaxCalls
    /\ \E c \in Clients, l \in Limits, w \in Windows : CallBody(p, c, l, w)

\* requests through the middleware, made one after another
DispatchSeq(p) ==
    /\ phase = "running"
    /\ \A q \in Procs : pc[q] = "idle"
    /\ calls < MaxCallsMw
    /\ \E c \in Clients, ep \in Endpoints : DispatchBody(p, c, ep)

\* requests of the login scenario, made one after another
DispatchLogin(p) ==
    /\ phase = "running"
    /\ \A q \in Procs : pc[q] = "idle"
    /\ calls < MaxCallsLogin
    /\ \E c \in Clients, ep \in {"/auth/login", "/products/"} : DispatchBody(p, c, ep)

\* is_connected(): the PING answers or fails; on success check_rate_limit
\* reads the clock and sends ZREMRANGEBYSCORE
PingReply(p) ==
    /\ UNCHANGED <<tokVars, cacheVars, acctVars>>
    /\ pc[p] = "ping"
    /\ IF storeUp
       THEN /\ pc' = [pc EXCEPT ![p] = "zrem"]
            /\ req' = [req EXCEPT ![p].current_time = now]
            /\ UNCHANGED <<connected, histVars>>
       ELSE /\ connected' = FALSE
            /\ AfterCheck(p, req[p], FailOpenResult(req[p].limit))
    /\ UNCHANGED <<now, ticks, phase, storeUp, redisSet, zset, keyExp, calls>>

\* the store runs ZREMRANGEBYSCORE key 0 window_start
ZRemStep(p) ==
    /\ UNCHANGED <<tokVars, cacheVars, acctVars>>
    /\ pc[p] = "zrem"
    /\ IF storeUp
       THEN LET c == req[p].client
                z == ZRemRangeByScore(zset[c], 0, req[p].current_time - req[p].window)
            IN  /\ zset' = [zset EXCEPT ![c] = z]
                /\ keyExp' = [keyExp EXCEPT ![c] =
                                 IF DOMAIN z = {} THEN NoExpiry ELSE @]
                /\ pc' = [pc EXCEPT ![p] = "zcard"]
                /\ UNCHANGED <<req, histVars>>
       ELSE /\ AfterCheck(p, req[p], FailOpenResult(req[p].limit))
            /\ UNCHANGED <<zset, keyExp>>
    /\ UNCHANGED <<now, ticks, phase, storeUp, redisSet, connected, calls>>

\* the store runs ZCARD; the reply decides between rejecting and adding
ZCardStep(p) ==
    /\ UNCHANGED <<tokVars, cacheVars, acctVars>>
    /\ pc[p] = "zcard"
    /\ IF storeUp
       THEN LET n == ZCard(zset[req[p].client])
            IN  /\ req' = [req EXCEPT ![p].current_requests = n]
                /\ pc' = [pc EXCEPT ![p] = IF n >= req[p].limit THEN "ttl" ELSE "zadd"]
                /\ UNCHANGED histVars
       ELSE AfterCheck(p, req[p], FailOpenResult(req[p].limit))
    /\ UNCHANGED <<now, ticks, phase, storeUp, redisSet, connected, zset, keyExp, calls>>

\* a limiter whose rejection also renews the expiration of the key
TtlStepRefresh(p) ==
    /\ UNCHANGED <<tokVars, cacheVars, acctVars>>
    /\ pc[p] = "ttl"
    /\ IF storeUp
       THEN LET c == req[p].client
                ttl == Ttl(zset[c], keyExp[c], now)
            IN  /\ keyExp' = [keyExp EXCEPT ![c] = now + req[p].window]
                /\ AfterCheck(p, req[p],
                              RejectedResult(req[p].current_time, ttl, req[p].window))
       ELSE /\ AfterCheck(p, req[p], FailOpenResult(req[p].limit))
            /\ UNCHANGED keyExp
    /\ UNCHANGED <<now, ticks, phase, storeUp, redisSet, connected, zset, calls>>

\* limit reached: the store runs TTL and the request is rejected
TtlStep(p) ==
    /\ UNCHANGED <<tokVars, cacheVars, acctVars>>
    /\ pc[p] = "ttl"
    /\ IF storeUp
       THEN LET c == req[p].client
                ttl == Ttl(zset[c], keyExp[c], now)
            IN  AfterCheck(p, req[p],
                           RejectedResult(req[p].current_time, ttl, req[p].window))
       ELSE AfterCheck(p, req[p], FailOpenResult(req[p].limit))
    /\ UNCHANGED <<now, ticks, phase, storeUp, redisSet, connected, zset, keyExp, calls>>

\* the store runs ZADD key {str(current_time): current_time}
ZAddStep(p) ==
    /\ UNCHANGED <<tokVars, cacheVars, acctVars>>
    /\ pc[p] = "zadd"
    /\ IF storeUp
       THEN LET c == req[p].client
            IN  /\ zset' = [zset EXCEPT ![c] =
                              ZAdd(@, IntToStr(req[p].current_time), req[p].current_time)]
                /\ pc' = [pc EXCEPT ![p] = "expire"]
                /\ UNCHANGED <<req, histVars>>
       ELSE /\ AfterCheck(p, req[p], FailOpenResult(req[p].limit))
            /\ UNCHANGED zset
    /\ UNCHANGED <<now, ticks, phase, storeUp, redisSet, connected, keyExp, calls>>

\* the store runs EXPIRE key window_seconds and the request is admitted
ExpireStep(p) ==
    /\ UNCHANGED <<tokVars, cacheVars, acctVars>>
    /\ pc[p] = "expire"
    /\ IF storeUp
       THEN LET c == req[p].client
            IN  /\ keyExp' = [keyExp EXCEPT ![c] =
                                IF DOMAIN zset[c] = {} THEN @ ELSE now + req[p].window]
                /\ AfterCheck(p, req[p],
                              AllowedResult(req[p].current_time, req[p].limit,
                                            req[p].window, req[p].current_requests))
       ELSE /\ AfterCheck(p, req[p], FailOpenResult(req[p].limit))
            /\ UNCHANGED keyExp
    /\ UNCHANGED <<now, ticks, phase, storeUp, redisSet, connected, zset, calls>>

\* call_next: the inner stack always answers (ErrorHandlerMiddleware is inside
\* and catches everything); the X-RateLimit-* headers are then added
CallNext(p) ==
    /\ UNCHANGED <<tokVars, cacheVars, acctVars>>
    /\ pc[p] = "call_next"
    /\ \E s \in DownstreamStatuses :
         last' = LastEntry(req[p], TRUE,
                           [status |-> s, retry_after |-> NoHeader,
                            headers |-> RateLimitHeaders])
    /\ pc' = [pc EXCEPT ![p] = "idle"]
    /\ req' = [req EXCEPT ![p] = IdleReq]
    /\ UNCHANGED <<now, ticks, phase, storeUp, redisSet, connected, zset, keyExp,
                   calls, admitted, prevT, rejected, used, tracking>>

\* the store commands of check_rate_limit
CheckStep(p) ==
    \/ PingReply(p)
    \/ ZRemStep(p)
    \/ ZCardStep(p)
    \/ TtlStep(p)
    \/ ZAddStep(p)
    \/ ExpireStep(p)

----------------------------------------------------------------------------
(* The cache: RedisClient.set / get / delete and the cache helpers *)

\* how many cache-using operations are started, and how often the clock
\* advances in the runs about the cache
MaxCacheOps == 3
MaxTicksCache == 1
\* requests to the cached routes in the runs where the store fails
MaxDegradeOps == 2
\* listings asked in the runs about the keys of listings
MaxKeyOps == 2
\* requests made in the runs about who may read a user
MaxAuthzOps == 3
\* account requests (registrations, logins, updates) made in a run
MaxAcctOps == 3
\* how many times the clock advances in the runs about accounts
MaxTicksAcct == 1
\* the amounts the clock advances by: one second, and the longer lifetime of
\* an entry (10 minutes for a product listing, 30 minutes for a user record)
CacheTickSteps == {1, 1800}
\* the users whose records are read, cached and changed
CacheUsers == {7}
\* the users that send GET /users/{user_id}, and the administrators among them
AuthUsers == {7, 8, 9}
Admins == {9}

\* Python values: t is the type, s the characters of a str (or the kind of
\* the elements of a list), n and b the content of the other types
Str(s) == [t |-> "str", s |-> s, n |-> 0, b |-> FALSE]
IntV(n) == [t |-> "int", s |-> <<>>, n |-> n, b |-> FALSE]
BoolV(b) == [t |-> "bool", s |-> <<>>, n |-> 0, b |-> b]
NoneV == [t |-> "None", s |-> <<>>, n |-> 0, b |-> FALSE]
\* a float with a whole value
FloatV(n) == [t |-> "float", s |-> <<>>, n |-> n, b |-> FALSE]
\* the dict login caches: id, name, email, is_admin, is_active of a user
\* record whose name is at version n and whose is_active is b
UserData(rec) == [t |-> "dict", s |-> <<>>, n |-> rec.name, b |-> rec.is_active]
\* the User object the data accessor returns
OrmUser(rec) == [t |-> "orm_user", s |-> <<>>, n |-> rec.name, b |-> rec.is_active]
\* a list of n elements: Product objects ("orm") or strings ("str")
ListV(kind, n) ==
    [t |-> "list", s |-> IF n = 0 THEN <<>> ELSE <<kind>>, n |-> n, b |-> FALSE]

\* the values json.loads can return in this model
JsonIntRange == (0 - 9)..99
JsonStrings == {<<"a", "b", "c">>, <<"7">>}
\* the values the clock takes in the runs about the cache
ClockValues == {i + 1800 * j : i \in 0..4, j \in 0..4}
JsonDomain ==
    {IntV(n) : n \in JsonIntRange} \cup {BoolV(b) : b \in BOOLEAN} \cup {NoneV}
      \cup {FloatV(n) : n \in ClockValues}
      \cup {Str(s) : s \in JsonStrings}
      \cup {UserData([name |-> n, is_active |-> b]) : n \in 0..MaxCacheOps, b \in BOOLEAN}
      \cup {ListV("str", n) : n \in 0..MaxCacheOps}

\* json.dumps(value, default=str): the JSON text of a value.  An object json
\* cannot serialise (a Product of a listing) is written as the string str()
\* gives for it, so a list of objects gets the text of a list of strings.
JsonDumps(v) ==
    CASE v.t = "int"  -> IntToStr(v.n)
      [] v.t = "float" -> IntToStr(v.n) \o <<".", "0">>
      [] v.t = "bool" -> IF v.b THEN <<"t", "r", "u", "e">>
                         ELSE <<"f", "a", "l", "s", "e">>
      [] v.t = "None" -> <<"n", "u", "l", "l">>
      [] v.t = "str"  -> <<"\"">> \o v.s \o <<"\"">>
      [] v.t = "dict" -> <<"{">> \o IntToStr(v.n) \o <<",">>
                           \o (IF v.b THEN <<"t">> ELSE <<"f">>) \o <<"}">>
      [] v.t = "list" -> <<"[">> \o IntToStr(v.n) \o <<"]">>
      [] OTHER        -> <<"\"", "<", "o", "b", "j", ">", "\"">>

\* json.loads(text) succeeds: text is the JSON text of some value
IsJson(text) == \E v \in JsonDomain : JsonDumps(v) = text

\* json.loads(text) for a text it accepts
JsonLoads(text) == CHOOSE v \in JsonDomain : JsonDumps(v) = text

\* RedisClient.set lines 63-64: a str is stored as it is, anything else as JSON
Serialize(value) == IF value.t = "str" THEN value.s ELSE JsonDumps(value)

\* RedisClient.get lines 87-91: the stored text is parsed as JSON, and
\* returned as a str when it is not JSON
Deserialize(text) == IF IsJson(text) THEN JsonLoads(text) ELSE Str(text)

\* Python truthiness, as used by `if expire_seconds:` and `if cached_user:`
Truthy(v) ==
    CASE v.t = "None" -> FALSE
      [] v.t = "int"  -> v.n # 0
      [] v.t = "float" -> v.n # 0
      [] v.t = "bool" -> v.b
      [] v.t = "str"  -> Len(v.s) > 0
      [] v.t = "list" -> v.n > 0
      [] OTHER        -> TRUE

\* the expire_seconds argument of RedisClient.set: None, or a number
NoExpire == NoneV
Secs(n) == IntV(n)

\* cache_set line 157: expire_minutes * 60
CacheSetSeconds(expire_minutes) == Secs(expire_minutes * 60)

\* f"user:{user_id}"
UserKey(user_id) == <<"user:">> \o IntToStr(user_id)

\* the query parameters of GET /products/, in the order sorted() gives them
FilterNames ==
    <<"available_only", "category", "limit", "max_price", "min_price",
      "search", "skip">>

\* a parameter that is None, and one with a value (the text f"{v}" gives)
Absent == [none |-> TRUE, text |-> <<>>]
Given(text) == [none |-> FALSE, text |-> text]

\* get_products called without query parameters
DefaultFilters ==
    [k \in {FilterNames[i] : i \in 1..Len(FilterNames)} |->
        CASE k = "skip"           -> Given(<<"0">>)
          [] k = "limit"          -> Given(<<"1", "0", "0">>)
          [] k = "available_only" -> Given(<<"T", "r", "u", "e">>)
          [] OTHER                -> Absent]

\* the filter sets listings are asked with
FilterSets ==
    {DefaultFilters, [DefaultFilters EXCEPT !["category"] = Given(<<"a">>)]}

\* no query (a request that is not a listing)
NoFilters ==
    [k \in {FilterNames[i] : i \in 1..Len(FilterNames)} |-> Absent]

\* listings asked with a category and a search text, among them texts that
\* contain "_" and the names of other parameters
KeyFilterSets ==
    FilterSets \cup
    {[DefaultFilters EXCEPT !["category"] = Given(c), !["search"] = Given(s)] :
        c \in {<<"a">>, <<"a", "_", "limit", "_", "1", "0", "0", "_", "search", "_", "b">>},
        s \in {<<"c">>, <<"b", "_", "limit", "_", "1", "0", "0", "_", "search", "_", "c">>}}

RECURSIVE Join(_, _)
\* sep.join(parts)
Join(parts, sep) ==
    IF Len(parts) = 0 THEN <<>>
    ELSE IF Len(parts) = 1 THEN parts[1]
    ELSE parts[1] \o sep \o Join(Tail(parts), sep)

\* cache_products / get_cached_products lines 175-178:
\* "_".join(f"{k}_{v}" for k, v in sorted(filters.items()) if v is not None)
FilterKey(filters) ==
    LET names == SelectSeq(FilterNames, LAMBDA k : ~filters[k].none)
    IN  Join([i \in 1..Len(names) |-> <<names[i], "_">> \o filters[names[i]].text],
             <<"_">>)

\* f"products:{filter_key}"
ProductsKey(filters) == <<"products:">> \o FilterKey(filters)

\* a key used when RedisClient.set / get / delete are called directly
TestKey == <<"k">>

\* _check_redis_detailed line 232: test_key
HealthKey == <<"health_check_test">>

\* _check_redis_detailed line 233: test_value = str(time.time()), the clock
\* reading t
HealthValue(t) == Str(IntToStr(t) \o <<".", "0">>)

\* the ids the table users gives out
AccountIds == 1..MaxAcctOps

CacheKeys ==
    {UserKey(u) : u \in AuthUsers \cup AccountIds}
      \cup {ProductsKey(f) : f \in KeyFilterSets} \cup {TestKey, HealthKey}

\* an entry of the store: the text stored and the instant the key expires
NoEntry == [present |-> FALSE, raw |-> <<>>, exp |-> NoExpiry]

\* the store still holds the entry at time t
Live(e, t) == e.present /\ (e.exp = NoExpiry \/ t < e.exp)

\* what a RedisClient operation returns: ok is whether the store executed the
\* command, value the Python value returned, raised whether an exception
\* leaves the operation
OpResult(ok, value) == [ok |-> ok, value |-> value, raised |-> FALSE]

\* lines 58-59, 78-79, 99-100: is_connected() gave False
EarlyReturn(op) ==
    IF op = "get" THEN OpResult(FALSE, NoneV) ELSE OpResult(FALSE, BoolV(FALSE))

\* an operation that lets the store's exception through
OnStoreErrorRaise(op) == [ok |-> FALSE, value |-> NoneV, raised |-> TRUE]

\* lines 72-74, 93-95, 105-107: the except branch of an operation
OnStoreError(op) ==
    IF op = "get" THEN OpResult(FALSE, NoneV) ELSE OpResult(FALSE, BoolV(FALSE))

\* the store executes the command of operation op of request r: the entry the
\* key has afterwards and what the operation returns
StoreExec(r, e, t) ==
    CASE r.op = "get" ->
            [entry |-> e,
             res |-> IF Live(e, t) THEN OpResult(TRUE, Deserialize(e.raw))
                     ELSE OpResult(TRUE, NoneV)]
      [] r.op = "set" ->
            IF Truthy(r.expire)
            THEN IF r.expire.n > 0
                 THEN [entry |-> [present |-> TRUE, raw |-> Serialize(r.value),
                                  exp |-> t + r.expire.n],
                       res |-> OpResult(TRUE, BoolV(TRUE))]
                 ELSE [entry |-> e, res |-> OnStoreError(r.op)]
            ELSE [entry |-> [present |-> TRUE, raw |-> Serialize(r.value),
                             exp |-> NoExpiry],
                  res |-> OpResult(TRUE, BoolV(TRUE))]
      [] OTHER ->
            [entry |-> NoEntry, res |-> OpResult(TRUE, BoolV(Live(e, t)))]

\* the response FastAPI makes of what get_products returns:
\* response_model=list[schemas.Product] accepts Product objects only
ProductsResponseStatus(v) ==
    IF v.t = "list" /\ (v.n = 0 \/ v.s = <<"orm">>) THEN 200
    ELSE ResponseForRaise("App", [kind |-> "ResponseValidationError"]).status

\* get_user line 386: schemas.User(**cached_user) needs created_at and
\* updated_at, which the dict cached by login does not hold: pydantic raises
\* ValidationError, a ValueError
CachedUserResponseStatus(v) ==
    IF v.t = "dict" THEN AppResponse(ValueError).status
    ELSE ResponseForRaise("App", [kind |-> "TypeError"]).status

\* the values, expirations and keys RedisClient.set / cache_set are called
\* with directly
SetValues ==
    {Str(<<"a", "b", "c">>), Str(<<"7">>), IntV(7),
     UserData([name |-> 0, is_active |-> TRUE])}
\* how many of these calls are made
MaxDirectOps == 2
ExpireArgs == {NoExpire, Secs(600)}
CacheSetMinutes == {0, 10}
DirectKeys == {TestKey}

\* the locals of a request that uses the cache; acc counts the calls of the
\* data accessor, failed records that a store operation of the request did
\* not go through
IdleC ==
    [route |-> "", stage |-> "", op |-> "", key |-> <<>>, value |-> NoneV,
     expire |-> NoExpire, user |-> 0, computed |-> NoneV, acc |-> 0,
     failed |-> FALSE, hit |-> FALSE, exp |-> NoExpiry, stored |-> FALSE,
     t0 |-> 0, filters |-> NoFilters, token |-> NoToken]

NoSummary ==
    [op |-> "", key |-> <<>>, value |-> NoneV, t |-> 0, done |-> 0, acc |-> 0,
     failed |-> FALSE, stored |-> FALSE, exp |-> NoExpiry,
     filters |-> NoFilters]

\* what is remembered of the operation before the last one
Summary(l) ==
    [op |-> l.op, key |-> l.key, value |-> l.value, t |-> l.t, done |-> l.done,
     acc |-> l.acc, failed |-> l.failed, stored |-> l.stored, exp |-> l.exp,
     filters |-> l.filters]

NoCLast ==
    [op |-> "", key |-> <<>>, value |-> NoneV, status |-> 0, computed |-> NoneV,
     acc |-> 0, failed |-> FALSE, hit |-> FALSE, exp |-> NoExpiry,
     stored |-> FALSE, t |-> 0, done |-> 0, key_present |-> FALSE,
     store_ok |-> FALSE, filters |-> NoFilters, token |-> NoToken, user |-> 0,
     prev |-> NoSummary]

CacheInit ==
    /\ cache = [k \in CacheKeys |-> NoEntry]
    /\ db = [users |-> [u \in AuthUsers |->
                          [name |-> 0, is_active |-> TRUE, pw |-> 0,
                           is_admin |-> u \in Admins]],
             products |-> 1]
    /\ cpc = "idle"
    /\ creq = IdleC
    /\ cops = 0
    /\ clast = NoCLast

\* what the actions of the cache leave alone
cacheFrame ==
    <<now, ticks, phase, storeUp, redisSet, zset, keyExp, pc, req, calls,
      histVars, tokVars, acctVars>>

\* the request returns: value is what the caller gets, status the HTTP status
\* of a route (0 for a direct call)
Finish(r, value, status) ==
    /\ cpc' = "idle"
    /\ creq' = IdleC
    /\ clast' = [op |-> r.route, key |-> r.key, value |-> value,
                 status |-> status, computed |-> r.computed, acc |-> r.acc,
                 failed |-> r.failed, hit |-> r.hit, exp |-> r.exp,
                 stored |-> r.stored, t |-> r.t0, done |-> now,
                 key_present |-> FALSE, store_ok |-> FALSE,
                 filters |-> r.filters, token |-> r.token, user |-> r.user,
                 prev |-> Summary(clast)]

\* the request goes on to the data accessor
GoDb(r) ==
    /\ cpc' = "db"
    /\ creq' = r
    /\ clast' = clast

\* a RedisClient operation of request r has returned res: what the caller
\* (a route of main.py, or a direct caller) does with it
AfterOp(r0, res) ==
    LET r == [r0 EXCEPT !.failed = @ \/ ~res.ok]
    IN  IF res.raised
        THEN Finish(r, NoneV, ResponseForRaise("App", [kind |-> "RedisError"]).status)
        ELSE CASE r.route = "get" ->
                    Finish([r EXCEPT !.hit = res.value # NoneV], res.value, 0)
               [] r.route \in {"set", "cache_set", "delete"} ->
                    Finish(r, r.value, 0)
               [] r.route = "get_products" /\ r.stage = "lookup" ->
                    \* if cached_products is not None: return cached_products
                    IF res.value # NoneV
                    THEN Finish([r EXCEPT !.hit = TRUE], res.value,
                                ProductsResponseStatus(res.value))
                    ELSE GoDb(r)
               [] r.route = "get_products" /\ r.stage = "store" ->
                    Finish(r, r.computed, ProductsResponseStatus(r.computed))
               [] r.route = "get_user" ->
                    \* if cached_user: return schemas.User(**cached_user)
                    IF Truthy(res.value)
                    THEN Finish([r EXCEPT !.hit = TRUE], NoneV,
                                CachedUserResponseStatus(res.value))
                    ELSE GoDb(r)
               [] r.route = "health" ->
                    \* _check_redis_detailed: not connected, or on to the
                    \* next operation; at the end data_integrity is
                    \* retrieved_value == test_value
                    IF r.stage = "connected" /\ res.value # BoolV(TRUE)
                    THEN Finish(r, BoolV(FALSE), 503)
                    ELSE IF r.stage = "delete"
                    THEN Finish(r, BoolV(r.computed = r.value),
                                IF r.computed = r.value THEN 200 ELSE 503)
                    ELSE /\ cpc' = "next"
                         /\ creq' = IF r.stage = "read"
                                    THEN [r EXCEPT !.computed = res.value] ELSE r
                         /\ clast' = clast
               [] OTHER ->
                    \* login: the tokens are returned whatever cache_user gave
                    Finish(r, r.computed, 200)

\* RedisClient.set / get / delete up to the first await: is_connected()
\* returns False at once, or sends a PING
StartOp(r0, op, key, value, expire) ==
    LET r == [r0 EXCEPT !.op = op, !.key = key, !.value = value, !.expire = expire]
    IN  IF ~connected \/ ~redisSet
        THEN AfterOp(r, EarlyReturn(op))
        ELSE /\ cpc' = "ping"
             /\ creq' = r
             /\ clast' = clast

CanStart ==
    /\ phase = "running"
    /\ cpc = "idle"
    /\ cops < MaxCacheOps

\* the same for the direct calls
CanCall ==
    /\ phase = "running"
    /\ cpc = "idle"
    /\ cops < MaxDirectOps

NewReq(route, stage) ==
    [IdleC EXCEPT !.route = route, !.stage = stage, !.t0 = now]

\* redis_client.set(key, value, expire_seconds), called directly
CallSet ==
    /\ CanCall
    /\ \E k \in DirectKeys, v \in SetValues, e \in ExpireArgs :
         StartOp(NewReq("set", ""), "set", k, v, e)
    /\ cops' = cops + 1
    /\ UNCHANGED <<cache, db, connected, cacheFrame>>

\* cache_set(key, value, expire_minutes), called directly
CallCacheSet ==
    /\ CanCall
    /\ \E k \in DirectKeys, v \in SetValues, m \in CacheSetMinutes :
         StartOp(NewReq("cache_set", ""), "set", k, v, CacheSetSeconds(m))
    /\ cops' = cops + 1
    /\ UNCHANGED <<cache, db, connected, cacheFrame>>

\* redis_client.get(key), called directly
CallGet ==
    /\ CanCall
    /\ \E k \in DirectKeys : StartOp(NewReq("get", ""), "get", k, NoneV, NoExpire)
    /\ cops' = cops + 1
    /\ UNCHANGED <<cache, db, connected, cacheFrame>>

\* redis_client.delete(key), called directly
CallDelete ==
    /\ CanCall
    /\ \E k \in DirectKeys : StartOp(NewReq("delete", ""), "delete", k, NoneV, NoExpire)
    /\ cops' = cops + 1
    /\ UNCHANGED <<cache, db, connected, cacheFrame>>

\* GET /products/ with the filter set f: get_cached_products(filters) first
GetProductsWith(f) ==
    /\ StartOp([NewReq("get_products", "lookup") EXCEPT !.filters = f], "get",
               ProductsKey(f), NoneV, NoExpire)
    /\ cops' = cops + 1
    /\ UNCHANGED <<cache, db, connected, cacheFrame>>

GetProducts == CanStart /\ \E f \in FilterSets : GetProductsWith(f)

\* GET /products/ with a category and a search text
GetProductsFiltered ==
    /\ phase = "running"
    /\ cpc = "idle"
    /\ cops < MaxKeyOps
    /\ \E f \in KeyFilterSets : GetProductsWith(f)

\* GET /users/{user_id} asked by the active user user_id itself:
\* get_cached_user(user_id) first
GetUser ==
    /\ CanStart
    /\ \E u \in CacheUsers :
         /\ db.users[u].is_active
         /\ StartOp([NewReq("get_user", "lookup") EXCEPT
                       !.user = u, !.token = create_access_token(u, now)],
                    "get", UserKey(u), NoneV, NoExpire)
    /\ cops' = cops + 1
    /\ UNCHANGED <<cache, db, connected, cacheFrame>>

\* the bearer credentials a client holding the tokens of user c can present
\* at time t: the access token, a copy whose signature does not match, an
\* access token that has expired, and the refresh token
CredentialsOf(c, t) ==
    {create_access_token(c, t),
     [create_access_token(c, t) EXCEPT !.sig = "bad"],
     [create_access_token(c, t) EXCEPT !.exp = t - 1],
     create_refresh_token(c, t)}

\* a get_user that looks every requested user up in the cache
ReadsCacheAlways(current_user_id, user_id) == TRUE

\* get_user line 383: the cache is read only for the caller's own record
ReadsCache(current_user_id, user_id) == current_user_id = user_id

\* GET /users/{user_id} with a bearer credential: get_current_user and
\* get_current_active_user first, then the permission check of get_user, then
\* the cache or the data accessor
GetUserAs ==
    /\ phase = "running"
    /\ cpc = "idle"
    /\ cops < MaxAuthzOps
    /\ \E c \in AuthUsers, user_id \in AuthUsers : \E token \in CredentialsOf(c, now) :
         LET r == [NewReq("get_user", "lookup") EXCEPT
                     !.user = user_id, !.token = token, !.key = UserKey(user_id)]
             v == verify_token(token, "access", now)
         IN  IF v.kind # "ok"
             THEN Finish(r, NoneV, AppResponse(v).status)
             ELSE IF v.user_id \notin DOMAIN db.users
             THEN Finish(r, NoneV, 404)
             ELSE IF ~db.users[v.user_id].is_active
             THEN Finish(r, NoneV, 400)
             ELSE IF ~db.users[v.user_id].is_admin /\ v.user_id # user_id
             THEN Finish(r, NoneV, 403)
             ELSE IF ReadsCache(v.user_id, user_id)
             THEN StartOp(r, "get", UserKey(user_id), NoneV, NoExpire)
             ELSE GoDb(r)
    /\ cops' = cops + 1
    /\ UNCHANGED <<cache, db, connected, cacheFrame>>

\* POST /auth/login with the right credentials: authenticate_user first
Login ==
    /\ CanStart
    /\ \E u \in CacheUsers :
         GoDb([NewReq("login", "auth") EXCEPT !.user = u, !.key = UserKey(u)])
    /\ cops' = cops + 1
    /\ UNCHANGED <<cache, db, connected, cacheFrame>>

\* _check_redis_detailed up to its first await: is_connected()
HealthCheck ==
    /\ CanCall
    /\ StartOp([NewReq("health", "connected") EXCEPT !.value = HealthValue(now)],
               "is_connected", HealthKey, HealthValue(now), NoExpire)
    /\ cops' = cops + 1
    /\ UNCHANGED <<cache, db, connected, cacheFrame>>

\* _check_redis_detailed goes on: set(test_key, test_value, 60), then
\* get(test_key), then delete(test_key)
HealthStep ==
    /\ cpc = "next"
    /\ CASE creq.stage = "connected" ->
              StartOp([creq EXCEPT !.stage = "write"], "set", HealthKey,
                      creq.value, Secs(60))
         [] creq.stage = "write" ->
              StartOp([creq EXCEPT !.stage = "read"], "get", HealthKey,
                      creq.value, NoExpire)
         [] OTHER ->
              StartOp([creq EXCEPT !.stage = "delete"], "delete", HealthKey,
                      creq.value, NoExpire)
    /\ UNCHANGED <<cache, db, cops, connected, cacheFrame>>

\* a mutation of crud.py has returned: whether the key user:<id> is still in
\* the store, and whether the store could have been reached
MutationDone(name, u) ==
    /\ clast' = [NoCLast EXCEPT !.op = name, !.key = UserKey(u),
                                !.t = now, !.done = now,
                                !.key_present = Live(cache[UserKey(u)], now),
                                !.store_ok = storeUp /\ connected /\ redisSet,
                                !.prev = Summary(clast)]
    /\ cops' = cops + 1
    /\ UNCHANGED <<cache, cpc, creq, connected, cacheFrame>>

\* crud.update_user: the record gets new values and is committed
UpdateUser ==
    /\ CanStart
    /\ \E u \in CacheUsers :
         /\ db' = [db EXCEPT !.users[u].name = @ + 1]
         /\ MutationDone("update_user", u)

\* crud.change_user_password: a new password_hash is committed
ChangeUserPassword ==
    /\ CanStart
    /\ \E u \in CacheUsers :
         /\ db' = [db EXCEPT !.users[u].pw = @ + 1]
         /\ MutationDone("change_user_password", u)

\* crud.deactivate_user: is_active becomes False
DeactivateUser ==
    /\ CanStart
    /\ \E u \in CacheUsers :
         /\ db.users[u].is_active
         /\ db' = [db EXCEPT !.users[u].is_active = FALSE]
         /\ MutationDone("deactivate_user", u)

\* an is_connected() that leaves _connected set when the PING fails
CachePingNoLatch ==
    /\ cpc = "ping"
    /\ IF storeUp
       THEN /\ IF creq.op = "is_connected"
               THEN AfterOp(creq, OpResult(TRUE, BoolV(TRUE)))
               ELSE cpc' = "cmd" /\ UNCHANGED <<creq, clast>>
            /\ UNCHANGED connected
       ELSE /\ connected' = connected
            /\ AfterOp(creq, EarlyReturn(creq.op))
    /\ UNCHANGED <<cache, db, cops, cacheFrame>>

\* is_connected(): the PING answers, or fails and clears _connected
CachePing ==
    /\ cpc = "ping"
    /\ IF storeUp
       THEN /\ IF creq.op = "is_connected"
               THEN AfterOp(creq, OpResult(TRUE, BoolV(TRUE)))
               ELSE cpc' = "cmd" /\ UNCHANGED <<creq, clast>>
            /\ UNCHANGED connected
       ELSE /\ connected' = FALSE
            /\ AfterOp(creq, EarlyReturn(creq.op))
    /\ UNCHANGED <<cache, db, cops, cacheFrame>>

\* the store executes GET / SETEX / SET / DEL, or the command fails
CacheCmd ==
    /\ cpc = "cmd"
    /\ IF storeUp
       THEN LET e == cache[creq.key]
                x == StoreExec(creq, e, now)
                r == [creq EXCEPT
                        !.exp = IF creq.op = "get"
                                THEN (IF Live(e, now) THEN e.exp ELSE NoExpiry)
                                ELSE IF x.res.ok THEN x.entry.exp ELSE NoExpiry,
                        !.stored = creq.op = "set" /\ x.res.ok]
            IN  /\ cache' = [cache EXCEPT ![creq.key] = x.entry]
                /\ AfterOp(r, x.res)
       ELSE /\ AfterOp(creq, OnStoreError(creq.op))
            /\ cache' = cache
    /\ UNCHANGED <<db, cops, connected, cacheFrame>>

\* the data accessor answers: crud.get_products, crud.get_user_by_id, or
\* crud.authenticate_user; the route goes on with what it returned
Accessor ==
    /\ cpc = "db"
    /\ LET r == [creq EXCEPT !.acc = @ + 1]
       IN  CASE r.route = "get_products" ->
                   \* cache_products(products, filters, expire_minutes=10)
                   LET products == ListV("orm", db.products)
                   IN  StartOp([r EXCEPT !.stage = "store", !.computed = products],
                               "set", r.key, products, CacheSetSeconds(10))
             [] r.route = "get_user" ->
                   LET user == OrmUser(db.users[r.user])
                   IN  Finish([r EXCEPT !.computed = user], user, 200)
             [] OTHER ->
                   \* cache_user(user_id, user_data, expire_minutes=30)
                   LET user_data == UserData(db.users[r.user])
                   IN  StartOp([r EXCEPT !.stage = "store", !.computed = user_data],
                               "set", r.key, user_data, CacheSetSeconds(30))
    /\ UNCHANGED <<cache, db, cops, connected, cacheFrame>>

----------------------------------------------------------------------------
(* Accounts: /auth/register, /auth/login and crud.update_user over the table
   users *)

\* the processes that serve account requests, two at a time
AcctProcs == {"a1", "a2"}
\* the emails and passwords the requests carry
Emails == {"ana@example.com", "bob@example.com"}
Passwords == {1, 2}
\* last_login of a user that never logged in (NULL)
NoLogin == -1

\* encrypt_password: the hash is not the password
encrypt_password(password) == [alg |-> "bcrypt", of |-> password]

\* verify_password(plain_password, encrypted_password)
verify_password(plain_password, encrypted_password) ==
    encrypted_password.alg = "bcrypt" /\ encrypted_password.of = plain_password

\* User(name, email, password_hash, is_admin): the row create_user adds
NewUser(email, password) ==
    [name |-> 0, email |-> email, password_hash |-> encrypt_password(password),
     is_active |-> TRUE, is_admin |-> FALSE, last_login |-> NoLogin]

\* a table without the unique constraint on email
UniqueViolationNone(rows, user_id, email) == FALSE

\* models.User.email, unique=True: the row user_id (0 for a new row) may not
\* take an email another row holds
UniqueViolation(rows, user_id, email) ==
    \E i \in DOMAIN rows : i # user_id /\ rows[i].email = email

\* crud.get_user_by_email: the id of the first row with that email, 0 for None
get_user_by_email(rows, email) ==
    IF \E i \in DOMAIN rows : rows[i].email = email
    THEN CHOOSE i \in DOMAIN rows :
           /\ rows[i].email = email
           /\ \A j \in DOMAIN rows : rows[j].email = email => i <= j
    ELSE 0

\* UserAlreadyExistsException(email)
UserAlreadyExistsException(email) ==
    [kind |-> "EcommerceError", cls |-> "UserAlreadyExistsException",
     status |-> 409, error_code |-> "USER_ALREADY_EXISTS", detail |-> ""]

\* a login that tells an unknown email from a wrong password
LoginFailureTelling(user) ==
    IF user = 0 THEN HTTPException(404, "Usuario no encontrado")
    ELSE HTTPException(401, "Email o contrasena incorrectos")

\* login_user: what is raised when authenticate_user returned None
LoginFailure(user) == HTTPException(401, "Email o contrasena incorrectos")

\* the body of the response to an exception: {"detail": ...} from FastAPI for
\* an HTTPException, {"error": {"code": ...}} from ErrorHandlerMiddleware
ErrorBody(exc) ==
    IF exc.kind = "HTTPException" THEN [field |-> "detail", text |-> exc.detail]
    ELSE IF exc.kind = "EcommerceError"
    THEN [field |-> "error.code", text |-> exc.error_code]
    ELSE [field |-> "error.code", text |-> "OTHER"]

NoBody == [field |-> "", text |-> ""]

IdleA == [op |-> "", email |-> "", password |-> 0, user_id |-> 0]

NoALast ==
    [op |-> "", email |-> "", password |-> 0, user_id |-> 0, status |-> 0,
     body |-> NoBody, raised |-> FALSE, known |-> FALSE, matched |-> FALSE,
     before |-> <<>>, after |-> <<>>, tokens |-> {}, cached |-> FALSE]

AcctInit ==
    /\ users = <<>>
    /\ apc = [p \in AcctProcs |-> "idle"]
    /\ areq = [p \in AcctProcs |-> IdleA]
    /\ aops = 0
    /\ alast = NoALast

\* what the account requests leave alone
acctFrame ==
    <<now, ticks, phase, storeUp, redisSet, zset, keyExp, pc, req, calls,
      histVars, vlast, db, cpc, creq, cops, clast>>

\* a request may start
CanStartAcct(p) ==
    /\ phase = "running"
    /\ apc[p] = "idle"
    /\ aops < MaxAcctOps

\* the request of p goes on to its next await
Suspend(p, at, r) ==
    /\ apc' = [apc EXCEPT ![p] = at]
    /\ areq' = [areq EXCEPT ![p] = r]
    /\ alast' = alast

\* the request of p is answered
\* (rows is the table as the request leaves it)
Answer(p, r, outcome, rows) ==
    /\ apc' = [apc EXCEPT ![p] = "idle"]
    /\ areq' = [areq EXCEPT ![p] = IdleA]
    /\ alast' = [outcome EXCEPT !.op = r.op, !.email = r.email,
                                !.password = r.password, !.user_id = r.user_id,
                                !.before = users, !.after = rows]

\* the answer to an exception that left the route
Raised(exc) ==
    [NoALast EXCEPT !.status = AppResponse(exc).status, !.body = ErrorBody(exc),
                    !.raised = TRUE]

\* register_user up to await db.commit(): the User is built and added to the
\* session
RegisterUser(p) ==
    /\ CanStartAcct(p)
    /\ \E e \in Emails, w \in Passwords :
         Suspend(p, "commit", [IdleA EXCEPT !.op = "register", !.email = e,
                                             !.password = w])
    /\ aops' = aops + 1
    /\ UNCHANGED <<users, cache, connected, issued, acctFrame>>

\* create_user: the commit inserts the row, or the constraint refuses it, the
\* session is rolled back and register_user raises UserAlreadyExistsException
RegisterUserCommit(p) ==
    /\ apc[p] = "commit" /\ areq[p].op = "register"
    /\ LET r == areq[p]
           known == get_user_by_email(users, r.email) # 0
       IN  IF UniqueViolation(users, 0, r.email)
           THEN /\ users' = users
                /\ Answer(p, r, [Raised(UserAlreadyExistsException(r.email))
                                   EXCEPT !.known = known], users')
           ELSE /\ users' = Append(users, NewUser(r.email, r.password))
                /\ Answer(p, [r EXCEPT !.user_id = Len(users) + 1],
                          [NoALast EXCEPT !.status = 200, !.known = known],
                          users')
    /\ UNCHANGED <<aops, cache, connected, issued, acctFrame>>

\* crud.update_user(user_id, UserUpdate(email=...)) up to the UPDATE:
\* get_user_by_id finds the user or update_user returns None
UpdateUserEmail(p) ==
    /\ CanStartAcct(p)
    /\ \E i \in AccountIds, e \in Emails :
         LET r == [IdleA EXCEPT !.op = "update_user", !.email = e, !.user_id = i]
         IN  IF i \in DOMAIN users
             THEN Suspend(p, "commit", r)
             ELSE Answer(p, r, NoALast, users)
    /\ aops' = aops + 1
    /\ UNCHANGED <<users, cache, connected, issued, acctFrame>>

\* update_user: the UPDATE is committed, or the constraint refuses it, the
\* session is rolled back and update_user raises ValueError
UpdateUserCommit(p) ==
    /\ apc[p] = "commit" /\ areq[p].op = "update_user"
    /\ LET r == areq[p]
           known == \E i \in DOMAIN users : i # r.user_id /\ users[i].email = r.email
       IN  IF UniqueViolation(users, r.user_id, r.email)
           THEN /\ users' = users
                /\ Answer(p, r, [NoALast EXCEPT !.raised = TRUE, !.known = known],
                          users')
           ELSE /\ users' = [users EXCEPT ![r.user_id].email = r.email]
                /\ Answer(p, r, [NoALast EXCEPT !.known = known], users')
    /\ UNCHANGED <<aops, cache, connected, issued, acctFrame>>

\* login_user up to the UPDATE of last_login: authenticate_user looks the
\* email up and verifies the password; None makes login_user raise
LoginUser(p) ==
    /\ CanStartAcct(p)
    /\ \E e \in Emails, w \in Passwords :
         LET r == [IdleA EXCEPT !.op = "login", !.email = e, !.password = w]
             user == get_user_by_email(users, e)
         IN  IF user = 0
             THEN Answer(p, r, Raised(LoginFailure(user)), users)
             ELSE IF ~verify_password(w, users[user].password_hash)
             THEN Answer(p, r, [Raised(LoginFailure(user)) EXCEPT !.known = TRUE],
                         users)
             ELSE Suspend(p, "touch", [r EXCEPT !.user_id = user])
    /\ aops' = aops + 1
    /\ UNCHANGED <<users, cache, connected, issued, acctFrame>>

\* login_user goes on: last_login is committed, the tokens are created and
\* cache_user(user_id, user_data, expire_minutes=30) writes user:<id> when the
\* store can be reached
LoginUserCommit(p) ==
    /\ apc[p] = "touch"
    /\ LET r == areq[p]
           tokens == {[uid |-> r.user_id, token |-> create_access_token(r.user_id, now)],
                      [uid |-> r.user_id, token |-> create_refresh_token(r.user_id, now)]}
           set == [NewReq("login", "store") EXCEPT
                     !.op = "set", !.key = UserKey(r.user_id),
                     !.value = UserData(users[r.user_id]),
                     !.expire = CacheSetSeconds(30)]
           x == StoreExec(set, cache[UserKey(r.user_id)], now)
           reached == connected /\ redisSet /\ storeUp
       IN  /\ users' = [users EXCEPT ![r.user_id].last_login = now]
           /\ issued' = issued \cup tokens
           /\ connected' = IF connected /\ redisSet /\ ~storeUp THEN FALSE
                           ELSE connected
           /\ cache' = IF reached
                       THEN [cache EXCEPT ![UserKey(r.user_id)] = x.entry]
                       ELSE cache
           /\ Answer(p, r, [NoALast EXCEPT !.status = 200, !.known = TRUE,
                                           !.matched = TRUE, !.tokens = tokens,
                                           !.cached = reached /\ x.res.ok],
                     users')
    /\ UNCHANGED <<aops, acctFrame>>

TickAcct == \E d \in {1} : Advance(d, MaxTicksAcct)

TickCache == \E d \in CacheTickSteps : Advance(d, MaxTicksCache)

vars == <<rlVars, tokVars, cacheVars, acctVars>>

Init == RLInit /\ TokInit /\ CacheInit /\ AcctInit

\* check_rate_limit called one call after another
NextSeq ==
    \/ Connect \/ Disconnect \/ Tick \/ StoreFail \/ StoreRecover
    \/ \E p \in SeqProcs : CallCheckSeq(p) \/ CheckStep(p)

SpecSeq == Init /\ [][NextSeq]_vars

\* requests through RateLimitMiddleware, one after another
NextMw ==
    \/ Connect \/ Disconnect \/ TickMw \/ StoreFail \/ StoreRecover
    \/ \E p \in SeqProcs : DispatchSeq(p) \/ CheckStep(p) \/ CallNext(p)

SpecMw == Init /\ [][NextMw]_vars

\* The runs below keep the store reachable and record which checks it admitted.
InitUp ==
    /\ now = 0
    /\ ticks = 0
    /\ phase = "created"
    /\ storeUp = TRUE
    /\ redisSet = FALSE
    /\ connected = FALSE
    /\ zset = [c \in Clients |-> EmptyZSet]
    /\ keyExp = [c \in Clients |-> NoExpiry]
    /\ pc = [p \in Procs |-> "idle"]
    /\ req = [p \in Procs |-> IdleReq]
    /\ calls = 0
    /\ last = NoLast
    /\ admitted = [c \in Clients |-> {}]
    /\ prevT = [c \in Clients |-> NoTime]
    /\ rejected = [c \in Clients |-> FALSE]
    /\ used = [c \in Clients |-> {}]
    /\ tracking = TRUE
    /\ TokInit
    /\ CacheInit
    /\ AcctInit

\* check_rate_limit called one call after another, the store reachable
NextSeqUp ==
    \/ Connect \/ Disconnect \/ Tick
    \/ \E p \in SeqProcs : CallCheckSeq(p) \/ CheckStep(p)

SpecSeqUp == InitUp /\ [][NextSeqUp]_vars

\* check_rate_limit called concurrently, the store reachable
NextConc ==
    \/ Connect \/ Disconnect \/ Tick
    \/ \E p \in Procs : CallCheck(p) \/ CheckStep(p)

SpecConc == InitUp /\ [][NextConc]_vars

\* check_rate_limit called concurrently while the store fails and recovers
NextShape ==
    \/ Connect \/ Disconnect \/ TickShape \/ StoreFail \/ StoreRecover
    \/ \E p \in Procs : CallCheckShape(p) \/ CheckStep(p)

SpecShape == Init /\ [][NextShape]_vars

\* the login scenario: one request after another, the store reachable
NextLogin ==
    \/ Connect \/ Disconnect \/ TickLogin
    \/ \E p \in SeqProcs : DispatchLogin(p) \/ CheckStep(p) \/ CallNext(p)

SpecLogin == InitUp /\ [][NextLogin]_vars

\* the token service: tokens are issued, time passes, tokens are presented
InitTok == RLInit /\ storeUp /\ TokInit /\ CacheInit /\ AcctInit

NextTok ==
    \/ CreateAccessToken \/ CreateRefreshToken \/ TickTok
    \/ VerifyToken \/ ProtectedRoute \/ RefreshRoute

SpecTok == InitTok /\ [][NextTok]_vars

\* the cached routes of main.py and the mutations of crud.py, the store
\* reachable
InitRead == Init /\ storeUp

NextRead ==
    \/ Connect \/ Disconnect \/ TickCache
    \/ GetProducts \/ GetUser \/ Login
    \/ UpdateUser \/ ChangeUserPassword \/ DeactivateUser
    \/ CachePing \/ CacheCmd \/ Accessor

SpecRead == InitRead /\ [][NextRead]_vars

\* the cached routes of main.py while the store fails and recovers
NextDegrade ==
    \/ Connect \/ Disconnect \/ TickCache \/ StoreFail \/ StoreRecover
    \/ (cops < MaxDegradeOps /\ (GetProducts \/ GetUser \/ Login))
    \/ CachePing \/ CacheCmd \/ Accessor

SpecDegrade == Init /\ [][NextDegrade]_vars

\* checks and cached reads, one after another, while the store fails and
\* recovers
NextLatch ==
    \/ Connect \/ Disconnect \/ StoreFail \/ StoreRecover
    \/ \E p \in SeqProcs : CallCheckLatch(p) \/ CheckStep(p)
    \/ (/\ cops < MaxLatchOps
        /\ \A q \in Procs : pc[q] = "idle"
        /\ (GetProducts \/ GetUser))
    \/ CachePing \/ CacheCmd \/ Accessor

SpecLatch == Init /\ [][NextLatch]_vars

\* listings asked with categories and search texts, the store reachable
NextKey ==
    \/ Connect \/ Disconnect \/ TickCache
    \/ GetProductsFiltered
    \/ CachePing \/ CacheCmd \/ Accessor

SpecKey == InitRead /\ [][NextKey]_vars

\* GET /users/{user_id} asked by several users, between logins and
\* deactivations, the store reachable
NextAuthz ==
    \/ Connect \/ Disconnect
    \/ GetUserAs
    \/ (cops < MaxAuthzOps /\ (Login \/ DeactivateUser))
    \/ CachePing \/ CacheCmd \/ Accessor

SpecAuthz == InitRead /\ [][NextAuthz]_vars

\* registrations, logins and updates of users, two at a time
NextAcct ==
    \/ Connect \/ TickAcct \/ StoreFail \/ StoreRecover
    \/ \E p \in AcctProcs :
         \/ RegisterUser(p) \/ RegisterUserCommit(p)
         \/ UpdateUserEmail(p) \/ UpdateUserCommit(p)
         \/ LoginUser(p) \/ LoginUserCommit(p)

SpecAcct == Init /\ [][NextAcct]_vars

\* RedisClient.set / get / delete and cache_set called directly
NextCache ==
    \/ Connect \/ Disconnect \/ TickCache \/ StoreFail \/ StoreRecover
    \/ CallSet \/ CallCacheSet \/ CallGet \/ CallDelete
    \/ HealthCheck \/ HealthStep
    \/ CachePing \/ CacheCmd

SpecCache == Init /\ [][NextCache]_vars

----------------------------------------------------------------------------
(* Claims about the rate limiter *)

\* `last` is a finished check made by calling check_rate_limit directly
DirectDone == last.via = "direct" /\ last.path # "none"

\* `last` is a finished request that went through RateLimitMiddleware
MwDone == last.via = "middleware" /\ last.path # "none"

\* C1: with the store reachable and calls made one after another under one
\* policy with limit >= 1, a check with fewer than `limit` admitted checks in
\* its window is admitted, and a check that already has `limit` admitted
\* checks in its window is rejected, however the calls are spaced (several in
\* the same clock second included).  Only checks during which the clock did
\* not advance are judged, so that the time of a check is unambiguous.
C1_LimitThenReject ==
    (DirectDone /\ last.path = "store" /\ last.limit >= 1 /\ ~last.ghost.others
       /\ last.done = last.t)
        => /\ (last.ghost.prior < last.limit => last.allowed)
           /\ (last.ghost.prior >= last.limit => ~last.allowed)

\* how many checks of policy (l, w) the store admitted for client c in the
\* window of w seconds that starts at t
AdmittedInWindow(c, l, w, t) ==
    Cardinality({x \in admitted[c] : x[1] = l /\ x[2] = w /\ t <= x[3] /\ x[3] < t + w})

\* C2: in every interleaving of the store commands of concurrent checks of
\* one client, the number of checks admitted inside any one window of
\* window_seconds never exceeds limit.
C2_NeverOverLimit ==
    \A c \in Clients : \A x \in admitted[c] :
        AdmittedInWindow(c, x[1], x[2], x[3]) <= x[1]

\* C3: a check that found the store unreachable, or one of whose store
\* commands failed, returns allowed=true, and RateLimitMiddleware hands the
\* request to the downstream handler, whose response is the one sent: a store
\* failure is never turned into a rejection or an error response.
C3_FailOpenForwards ==
    /\ \A p \in Procs :
          req[p].result.path = "open" =>
              req[p].result.allowed /\ pc[p] = "call_next"
    /\ (MwDone /\ last.path = "open") =>
          last.allowed /\ last.forwarded /\ last.status \in DownstreamStatuses

\* C3 witness: a request whose check had added its timestamp when the next
\* command (EXPIRE) failed has been forwarded and answered by the downstream
\* handler
C3_Witness ==
    /\ MwDone /\ last.path = "open" /\ last.forwarded
    /\ IntToStr(last.t) \in DOMAIN zset[last.client]
    /\ keyExp[last.client] = NoExpiry
    /\ ~storeUp

\* C4: under the /auth/login policy, requests of one IP made one after
\* another: a POST to /auth/login with fewer than 5 admitted login requests in
\* the last 300 seconds is admitted, and one that already has 5 of them is
\* answered 429 with Retry-After > 0, whatever requests the IP made to other
\* routes in between.  Only requests during whose check the clock did not
\* advance are judged.
C4_SixthLoginGets429 ==
    (MwDone /\ last.endpoint = "/auth/login" /\ last.done = last.t)
        => /\ (last.ghost.prior < last.limit => last.allowed /\ last.forwarded)
           /\ (last.ghost.prior >= last.limit =>
                  last.status = 429 /\ last.retry_after > 0)

\* `last` is a check under a policy with limit >= 1, made when at least
\* window_seconds had elapsed since the client's previous check
AfterQuietWindow ==
    /\ DirectDone
    /\ last.limit >= 1
    /\ last.ghost.prevT # NoTime
    /\ last.t - last.ghost.prevT >= last.window

C10_RejectedGets429 ==
    (MwDone /\ ~last.allowed)
        => last.status = 429 /\ last.retry_after = last.reset_time - last.done

\* C11: with the store reachable and calls made one after another under one
\* policy, every accepted check adds exactly one timestamp to the client's
\* collection and reports remaining = limit - count - 1, count being the
\* number of earlier accepted requests still inside the window.  Only checks
\* during which the clock did not advance are judged.
C11_OneTimestampAndRemaining ==
    (DirectDone /\ last.path = "store" /\ last.allowed /\ last.limit >= 1
       /\ ~last.ghost.others /\ last.done = last.t)
        => /\ last.added = 1
           /\ last.remaining = last.limit - last.ghost.prior - 1

\* C12: the reset_time of a rejected request is not before the instant at
\* which the number of the client's timestamps inside the window of the
\* request's policy drops below limit: at reset_time fewer than limit of the
\* recorded timestamps are still inside that window.  Only checks during which
\* the clock did not advance are judged.
C12_ResetNotEarly ==
    (MwDone /\ ~last.allowed /\ last.done = last.t) => last.still < last.limit

\* C13: RateLimitMiddleware encloses the application (token verification,
\* route handlers, cache and data accessor); a request is at call_next only
\* with a finished check that returned allowed=true, and a request whose
\* check returned allowed=false is answered without ever being forwarded.
C13_ForwardedOnlyIfAllowed ==
    /\ PositionOf("RateLimit") < PositionOf("App")
    /\ \A p \in Procs :
          pc[p] = "call_next" =>
              req[p].result.path # "none" /\ req[p].result.allowed
    /\ (MwDone /\ last.forwarded) => last.allowed
    /\ (MwDone /\ ~last.allowed) => ~last.forwarded

\* C13 witness: a request the store rejected has been answered without being
\* forwarded
C13_Witness ==
    /\ MwDone /\ last.path = "store"
    /\ ~last.allowed /\ ~last.forwarded
    /\ last.status # 0

\* C14: every response (to an admitted request, to a rejected one, and to one
\* served on the fail-open path) carries X-RateLimit-Limit,
\* X-RateLimit-Remaining and X-RateLimit-Reset.
C14_HeadersOnEveryResponse ==
    MwDone => RateLimitHeaders \subseteq last.headers

\* C24: the policies of different routes are independent for one client.  A
\* check under one policy counts only the requests admitted under that policy
\* (it reports at least limit - count - 1 requests remaining, and rejects only
\* when `limit` of them are inside its window), and every timestamp admitted
\* under a policy stays in the client's collection, the key unexpired, for as
\* long as it is inside the window of that policy.  Only requests during whose
\* check the clock did not advance are judged for the count.
C24_PoliciesIndependent ==
    /\ (MwDone /\ last.path = "store" /\ last.done = last.t)
          => /\ (last.allowed =>
                    last.remaining >= last.limit - last.ghost.prior - 1)
             /\ (~last.allowed => last.ghost.prior >= last.limit)
    /\ \A c \in Clients : \A x \in admitted[c] :
          now - x[3] < x[2] => IntToStr(x[3]) \in DOMAIN zset[c]

\* the step of check p that leaves the await `at`
Leaves(p, at) == pc[p] = at /\ pc'[p] # at

\* C27: a rejected check changes nothing in the client's state except purging
\* timestamps that have left the window.  The commands of a rejected check
\* are ZREMRANGEBYSCORE, ZCARD and TTL: the first removes only timestamps at or
\* before current_time - window_seconds and leaves the expiration of a key
\* that still exists alone, the other two change neither the collection nor
\* the expiration; no timestamp is added and the expiration is not renewed.
C27_RejectedFrame ==
    [][\A p \in Procs :
          LET c == req[p].client
              window_start == req[p].current_time - req[p].window
          IN  /\ (Leaves(p, "ttl") \/ Leaves(p, "zcard"))
                    => zset' = zset /\ keyExp' = keyExp
              /\ Leaves(p, "zrem")
                    => /\ DOMAIN zset'[c] \subseteq DOMAIN zset[c]
                       /\ \A m \in DOMAIN zset[c] :
                             zset[c][m] > window_start
                                => m \in DOMAIN zset'[c] /\ zset'[c][m] = zset[c][m]
                       /\ DOMAIN zset'[c] # {} => keyExp'[c] = keyExp[c]
                       /\ \A d \in Clients \ {c} :
                             zset'[d] = zset[d] /\ keyExp'[d] = keyExp[d]]_vars

\* C27 witness: a client that had already been rejected has been rejected
\* again by the store, and its key still expires before a renewal at this
\* check would have made it expire
C27_Witness ==
    /\ DirectDone /\ last.path = "store" /\ ~last.allowed
    /\ last.ghost.prevRejected
    /\ IntToStr(last.t) \notin DOMAIN zset[last.client]
    /\ keyExp[last.client] # NoExpiry
    /\ keyExp[last.client] < last.t + last.window

\* what C28 says of a result returned by a check under `limit` and `window`
\* that read the clock at current_time
ResultWellFormed(result, limit, window, current_time) ==
    /\ ~result.allowed
          => result.remaining = 0 /\ result.reset_time > current_time
    /\ (result.allowed /\ result.path = "store")
          => /\ 0 <= result.remaining /\ result.remaining <= limit - 1
             /\ result.reset_time = current_time + window
    /\ (result.allowed /\ result.path = "open")
          => result.remaining = limit /\ result.reset_time = 0

\* C28: every result of check_rate_limit satisfies: allowed=false implies
\* remaining = 0 and reset_time > now (the time the check read); allowed=true
\* from the store implies 0 <= remaining <= limit - 1 and reset_time = now +
\* window_seconds; allowed=true on the fail-open path implies remaining =
\* limit and reset_time = 0; for every limit >= 0 and in every interleaving of
\* concurrent checks.
C28_ResultShape ==
    /\ last.path # "none"
          => ResultWellFormed([allowed |-> last.allowed,
                               remaining |-> last.remaining,
                               reset_time |-> last.reset_time,
                               path |-> last.path],
                              last.limit, last.window, last.t)
    /\ \A p \in Procs :
          req[p].result.path # "none"
              => ResultWellFormed(req[p].result, req[p].limit, req[p].window,
                                  req[p].current_time)

\* C28 witness: a check under a policy with limit >= 1 has been rejected by
\* the store while the check that took the last place has added its timestamp
\* and not yet set the expiration of the key (TTL reported no expiration, so
\* reset_time is current_time + window_seconds)
C28_Witness ==
    /\ DirectDone /\ last.path = "store" /\ ~last.allowed /\ last.limit >= 1
    /\ last.reset_time = last.t + last.window
    /\ keyExp[last.client] = NoExpiry
    /\ \E p \in Procs : pc[p] = "expire" /\ req[p].client = last.client

----------------------------------------------------------------------------
(* Claims about the token service *)

\* `vlast` is a direct verify_token call on a token exactly as it was issued
VerifiedIssued == vlast.op = "verify" /\ vlast.source = "issued"

\* C5: a token issued by create_access_token is rejected (401) by
\* verify_token(token, "refresh") and one issued by create_refresh_token by
\* verify_token(token, "access"); a refresh token never authenticates a
\* protected route, and an access token never obtains a token from
\* /auth/refresh.
C5_TypeGuard ==
    /\ (VerifiedIssued /\ vlast.token.type # vlast.expected)
          => vlast.outcome.kind = "HTTPException" /\ vlast.outcome.status = 401
    /\ (vlast.op = "protected" /\ vlast.source = "issued"
          /\ vlast.token.type = "refresh")
          => vlast.outcome.kind # "ok" /\ vlast.status = 401
    /\ (vlast.op = "refresh" /\ vlast.source = "issued"
          /\ vlast.token.type = "access")
          => ~vlast.issues /\ vlast.status = 401

\* C5 witness: an unexpired refresh token of an existing user was presented
\* to a protected route and refused
C5_Witness ==
    /\ vlast.op = "protected" /\ vlast.source = "issued"
    /\ vlast.token.type = "refresh"
    /\ vlast.time < vlast.token.exp
    /\ vlast.uid \in ExistingUsers
    /\ vlast.status = 401

\* C6: verifying an issued token with its own kind before its expiration
\* returns exactly the integer user id it was issued for.
C6_RoundTrip ==
    (VerifiedIssued /\ vlast.token.type = vlast.expected
       /\ vlast.time < vlast.token.exp)
        => vlast.outcome.kind = "ok" /\ vlast.outcome.user_id = vlast.uid

\* C6 witness: a token issued for a negative user id was verified some time
\* after it was issued and gave that id back
C6_Witness ==
    /\ VerifiedIssued /\ vlast.token.type = vlast.expected
    /\ vlast.uid < 0
    /\ vlast.time > 0 /\ vlast.time < vlast.token.exp
    /\ vlast.outcome.kind = "ok" /\ vlast.outcome.user_id = vlast.uid

\* C7: an issued token verified after its expiration instant fails with the
\* (merged invalid-or-expired) expiration error, never succeeds and never
\* fails with another kind, whatever kind verify_token is told to expect.
C7_ExpiredError ==
    (VerifiedIssued /\ vlast.time > vlast.token.exp)
        => /\ vlast.outcome.kind = "HTTPException"
           /\ vlast.outcome.status = 401
           /\ vlast.outcome.detail = "Token invalido o expirado"

\* C7 witness: an expired token was verified against the other kind and
\* failed with the expiration error
C7_Witness ==
    /\ VerifiedIssued /\ vlast.time > vlast.token.exp
    /\ vlast.token.type # vlast.expected
    /\ vlast.outcome.detail = "Token invalido o expirado"

\* C8: every token that fails verification on a protected route (bad
\* signature, expired, wrong type, missing subject, subject that is not an
\* integer) is answered 401.
C8_FailureIs401 ==
    (vlast.op = "protected" /\ vlast.outcome.kind # "ok") => vlast.status = 401

----------------------------------------------------------------------------
(* Claims about the cache *)

\* the routes that read through the cache, and the lifetime of what they cache
ReadRoutes == {"get_products", "get_user"}
RouteTtl(route) ==
    IF route = "get_products" THEN CacheSetSeconds(10).n ELSE CacheSetSeconds(30).n

Mutations == {"update_user", "change_user_password", "deactivate_user"}

\* C15: with the store reachable, two successive reads with the same key
\* (the same filter set on GET /products/, the same user on GET /users/{id}),
\* the second finished within the TTL counted from the start of the first,
\* call the data accessor at most once between them.
C15_SecondReadFromCache ==
    (clast.op \in ReadRoutes /\ clast.prev.op = clast.op
       /\ clast.prev.key = clast.key
       /\ ~clast.failed /\ ~clast.prev.failed
       /\ clast.done - clast.prev.t < RouteTtl(clast.op))
        => clast.acc + clast.prev.acc <= 1

\* C16: when update_user, change_user_password or deactivate_user returns
\* (the store being reachable), the key user:<id> is not in the store any
\* more, and a read of that user made right after the mutation is not
\* answered from a cache entry.
C16_InvalidatedOnMutation ==
    /\ (clast.op \in Mutations /\ clast.store_ok) => ~clast.key_present
    /\ (clast.op = "get_user" /\ clast.prev.op \in Mutations
          /\ clast.prev.key = clast.key) => ~clast.hit

\* C17: every entry written through RedisClient.set / cache_set carries a
\* finite expiry, and a get never returns an entry at or after its expiry.
C17_FiniteExpiry ==
    /\ \A k \in CacheKeys : cache[k].present => cache[k].exp # NoExpiry
    /\ (clast.op = "get" /\ clast.hit)
          => clast.exp # NoExpiry /\ clast.done < clast.exp

C19_ValueRoundTrip ==
    (clast.op = "get" /\ ~clast.failed
       /\ clast.prev.op \in {"set", "cache_set"} /\ clast.prev.stored
       /\ clast.prev.key = clast.key
       /\ (clast.prev.exp = NoExpiry \/ clast.done < clast.prev.exp))
        => clast.value = clast.prev.value

\* C26: the connection flag latches.  An is_connected() whose PING fails
\* clears _connected; only connect(), which lifespan calls at startup, sets it
\* again; and while it is cleared every is_connected() returns False without
\* contacting the store: check_rate_limit returns the fail-open result
\* (allowed=true, remaining = limit) at once and leaves the client's
\* collection alone, a cached read goes to the data accessor without a lookup,
\* and its write-back is dropped, whether or not the store is reachable again.
C26_FlagLatches ==
    [][/\ (~connected /\ connected') => phase = "created" /\ phase' = "running"
       /\ \A p \in Procs : (Leaves(p, "ping") /\ ~storeUp) => ~connected'
       /\ (cpc = "ping" /\ cpc' # "ping" /\ ~storeUp) => ~connected'
       /\ (~connected /\ calls' = calls + 1)
             => /\ last'.path = "open" /\ last'.allowed
                /\ last'.remaining = last'.limit
                /\ pc' = pc /\ zset' = zset /\ keyExp' = keyExp
       /\ (~connected /\ cops' = cops + 1) => cpc' = "db" /\ cache' = cache
       /\ (~connected /\ cpc = "db" /\ cpc' # "db")
             => cpc' = "idle" /\ cache' = cache]_vars

\* C26 witness: the store answers again and the application is running with
\* the flag cleared; the second check was served on the fail-open path, and a
\* listing whose entry is still in the store was read from the data accessor
C26_Witness ==
    /\ phase = "running" /\ storeUp /\ ~connected
    /\ calls = 2 /\ DirectDone /\ last.path = "open" /\ last.allowed
    /\ clast.op = "get_products" /\ ~clast.hit /\ clast.acc = 1
    /\ Live(cache[clast.key], now)

\* C30: when Redis is connected and its write, read and delete commands all
\* succeed, _check_redis_detailed reports healthy=true with
\* data_integrity=true (the value read back equals the value written), so a
\* working Redis never makes /health/detailed answer 503.
C30_WorkingRedisHealthy ==
    (clast.op = "health" /\ ~clast.failed)
        => clast.value = BoolV(TRUE) /\ clast.status = 200

\* C25: a read answered from the cache returns the response the same read
\* would have returned from the data accessor when the entry was written: it
\* is answered 200, a listing read from the cache is the list of product
\* records the accessor computed, and a user read from the cache is a user
\* record as the accessor returns it.
C25_CacheTransparent ==
    (clast.op \in ReadRoutes /\ clast.hit)
        => /\ clast.status = 200
           /\ clast.op = "get_products" => clast.value = ListV("orm", db.products)
           /\ clast.op = "get_user"
                 => \E n \in 0..MaxCacheOps, b \in BOOLEAN :
                       clast.value = OrmUser([name |-> n, is_active |-> b])

\* C23: the product cache key is injective on filter sets: two filter
\* dictionaries that differ in the value of at least one parameter never give
\* the same products:<...> key, whatever the texts of search and category
\* ("_" and the names of other parameters included); so of two successive
\* listings asked with different filter sets the second is never answered
\* from the entry of the first.
C23_KeyInjective ==
    (clast.op = "get_products" /\ clast.prev.op = "get_products"
       /\ clast.filters # clast.prev.filters)
        => /\ ProductsKey(clast.filters) # ProductsKey(clast.prev.filters)
           /\ clast.key # clast.prev.key
           /\ ~(clast.hit /\ clast.prev.stored)

\* the bearer credential of the request recorded in clast is a validly
\* signed, unexpired access token whose subject is the id of a user
ValidAccessToken ==
    /\ clast.token.sig = "ok" /\ clast.token.exp >= clast.t
    /\ clast.token.type = "access"
    /\ clast.token.hasSub /\ IsIntLiteral(clast.token.sub)
    /\ PyInt(clast.token.sub) \in DOMAIN db.users

\* the user that credential authenticates
CallerId == PyInt(clast.token.sub)

\* C29: GET /users/{user_id} returns the data of user_id (from the data
\* accessor or from the cache) only when the caller is authenticated, active
\* and either that same user or an admin; an entry cached under user:<id> is
\* only ever read for the caller whose own id is <id>, and a caller whose
\* account is inactive or whose token is invalid gets nothing from the cache
\* or the accessor.
C29_OnlyOwnerOrAdmin ==
    clast.op = "get_user"
        => /\ (clast.status = 200 \/ clast.hit \/ clast.acc > 0)
                 => /\ ValidAccessToken
                    /\ db.users[CallerId].is_active
                    /\ CallerId = clast.user \/ db.users[CallerId].is_admin
           /\ clast.hit => ValidAccessToken /\ CallerId = clast.user

\* C29 witness: after a login, the user read its own record and the entry
\* under user:<id> was found for it
C29_Witness ==
    /\ clast.op = "get_user" /\ clast.hit
    /\ ValidAccessToken /\ CallerId = clast.user
    /\ clast.prev.op = "login" /\ clast.prev.key = clast.key

----------------------------------------------------------------------------
(* Claims about the refresh route *)

\* the token presented to /auth/refresh is validly signed, unexpired, of type
\* refresh, and its subject is the id of an existing user
ValidRefreshToken(token, t) ==
    /\ token.sig = "ok"
    /\ t <= token.exp
    /\ token.type = "refresh"
    /\ token.hasSub
    /\ IsIntLiteral(token.sub)
    /\ PyInt(token.sub) \in ExistingUsers

\* C20: POST /auth/refresh answers 200 with a new access token (one that
\* verifies as type access for the same user id) and the unchanged refresh
\* token if and only if the presented token is a validly signed, unexpired
\* refresh token of an existing user; otherwise it answers 401 and issues no
\* token.
C20_RefreshIff ==
    vlast.op = "refresh" =>
        IF ValidRefreshToken(vlast.token, vlast.time)
        THEN /\ vlast.status = 200 /\ vlast.issues
             /\ verify_token(vlast.access_token, "access", vlast.time)
                    = Returned(PyInt(vlast.token.sub))
             /\ vlast.refresh_token = vlast.token
        ELSE /\ vlast.status = 401 /\ ~vlast.issues
             /\ vlast.access_token = NoToken

\* C20 witness: a refresh token of an existing user, presented some time
\* after it was issued, obtained a new access token
C20_Witness ==
    /\ vlast.op = "refresh" /\ vlast.source = "issued"
    /\ vlast.time > 0
    /\ vlast.issues /\ vlast.status = 200
    /\ vlast.access_token.type = "access"

----------------------------------------------------------------------------
(* Claims about accounts *)

\* the registration answered last asked for an email the table already held
DuplicateRegistration ==
    /\ alast.op = "register"
    /\ \E i \in DOMAIN alast.before : alast.before[i].email = alast.email

FailedLoginStep ==
    /\ aops' = aops + 1
    /\ apc' = apc
    /\ alast'.op = "login"

====
